---------------------------- MODULE Spec2Model ----------------------------
(***************************************************************************)
(* A model of porty (src/src/main.rs): port discovery, classification,     *)
(* container enrichment, the ancestor walk and the detail aggregator.      *)
(*                                                                         *)
(* Text is modelled as a sequence of one-character strings, so that the    *)
(* string operations of the source (contains, rfind, split, parse,         *)
(* to_lowercase) are computed as the source computes them.  An Option is   *)
(* a sequence of length 0 (None) or 1 (Some).                              *)
(***************************************************************************)
EXTENDS Integers, Sequences, FiniteSets, TLC

VARIABLES
    \* a call of classify
    cl_pc, cl_port, cl_process, cl_kind,
    \* a call of get_friendly_container_name
    fr_pc, fr_name, fr_image, fr_result,
    \* a run of main: the environment it observed (m_lsof, m_procs,
    \* m_docker), the locals of discover_ports (m_raw, m_unique, m_enriched), its result,
    \* and main's entries
    m_pc, m_lsof, m_procs, m_docker, m_raw, m_unique, m_enriched, m_result,
    m_entries,
    \* the subcommand main dispatched and the entries its handler listed
    m_cmd, m_shown,
    \* cmd_kill and kill_pid: the position in kill_pid, its pid, the targets
    \* left, the pids kill_pid was called for, its results, the signals
    \* delivered; the processes alive and those the user may signal
    k_pc, k_pid, k_targets, k_calls, k_results, signals, alive, permitted,
    \* a call of get_parent_chain: the inspected pid, the locals, what the
    \* last lookups answered
    ch_pc, ch_pid, ch_st, ch_answer,
    \* a call of get_detailed_port_info: its arguments, the process table,
    \* the two values read before the spawns, the six tasks with what their
    \* commands gave, the joins done, the returned Result
    dt_pc, dt_args, dt_procs, dt_process_name, dt_exec_path, dt_task, dt_obs,
    dt_joined, dt_ret,
    \* a call of get_docker_info: its arguments, the outcome of the container
    \* listing, its result
    di_pc, di_port, di_name, di_docker, di_result

clVars == <<cl_pc, cl_port, cl_process, cl_kind>>
frVars == <<fr_pc, fr_name, fr_image, fr_result>>
mainVars == <<m_pc, m_lsof, m_procs, m_docker, m_raw, m_unique, m_enriched,
              m_result, m_entries, m_cmd, m_shown>>
kVars == <<k_pc, k_pid, k_targets, k_calls, k_results, signals, alive,
           permitted>>
chVars == <<ch_pc, ch_pid, ch_st, ch_answer>>
dtVars == <<dt_pc, dt_args, dt_procs, dt_process_name, dt_exec_path, dt_task,
            dt_obs, dt_joined, dt_ret>>
diVars == <<di_pc, di_port, di_name, di_docker, di_result>>
vars == <<clVars, frVars, mainVars, kVars, chVars, dtVars, diVars>>
\* what each part leaves alone
notClassify == <<frVars, mainVars, kVars, chVars, dtVars, diVars>>
notFriendly == <<clVars, mainVars, kVars, chVars, dtVars, diVars>>
notMain == <<clVars, frVars, chVars, dtVars, diVars>>
notChain == <<clVars, frVars, mainVars, kVars, dtVars, diVars>>
notDetail == <<clVars, frVars, mainVars, kVars, chVars, diVars>>
notDockerInfo == <<clVars, frVars, mainVars, kVars, chVars, dtVars>>

---------------------------------------------------------------------------
(* Option<T> *)
None == <<>>
Some(x) == <<x>>
IsSome(o) == Len(o) = 1
Unwrap(o) == o[1]

---------------------------------------------------------------------------
(* Text helpers *)
UpperChars == <<"A","B","C","D","E","F","G","H","I","J","K","L","M",
                "N","O","P","Q","R","S","T","U","V","W","X","Y","Z">>
LowerChars == <<"a","b","c","d","e","f","g","h","i","j","k","l","m",
                "n","o","p","q","r","s","t","u","v","w","x","y","z">>
Digits == <<"0","1","2","3","4","5","6","7","8","9">>

\* char::to_lowercase on the ASCII range
to_lowercase_char(c) ==
    IF \E i \in 1..26 : UpperChars[i] = c
    THEN LowerChars[CHOOSE i \in 1..26 : UpperChars[i] = c]
    ELSE c

\* str::to_lowercase
to_lowercase(s) == [i \in 1..Len(s) |-> to_lowercase_char(s[i])]

\* str::contains(pattern)
contains(s, pat) ==
    \E i \in 0..(Len(s) - Len(pat)) : SubSeq(s, i + 1, i + Len(pat)) = pat

\* char::is_ascii_digit
is_ascii_digit(c) == \E i \in 1..10 : Digits[i] = c

DigitValue(c) == (CHOOSE i \in 1..10 : Digits[i] = c) - 1

---------------------------------------------------------------------------
(* classify: src/src/main.rs 119-160 *)
SystemKeywords ==
    { <<"l","a","u","n","c","h","d">>,
      <<"m","d","n","s","r","e","s","p","o","n","d","e","r">>,
      <<"c","u","p","s">>,
      <<"c","o","n","t","r","o","l","c","e","n","t","e","r">>,
      <<"a","i","r","p","l","a","y">> }

DevKeywords ==
    { <<"n","o","d","e">>, <<"v","i","t","e">>, <<"n","e","x","t">>,
      <<"p","y","t","h","o","n">>, <<"r","u","b","y">>, <<"r","a","i","l","s">>,
      <<"d","j","a","n","g","o">>, <<"f","l","a","s","k">>,
      <<"p","h","o","e","n","i","x">>, <<"w","e","b","p","a","c","k">>,
      <<"n","p","m">>, <<"y","a","r","n">>, <<"p","u","m","a">>,
      <<"u","n","i","c","o","r","n">> }

DatabaseKeywords ==
    { <<"p","o","s","t","g","r","e","s">>, <<"m","y","s","q","l">>,
      <<"r","e","d","i","s">>, <<"m","o","n","g","o","d">>,
      <<"m","a","r","i","a","d","b">>, <<"c","o","u","c","h","d","b">> }

ContainerKeywords ==
    { <<"d","o","c","k","e","r">>,
      <<"c","o","n","t","a","i","n","e","r","d">>,
      <<"c","o","l","i","m","a">>, <<"p","o","d","m","a","n">> }

DevPorts == {3000, 5173, 8080, 8000, 4200, 3001, 5000, 9000}
DatabasePorts == {5432, 3306, 6379, 27017, 1433, 5984}
ContainerPorts == {2375, 2376}
SystemPorts == {631}

ContainsAny(p, kws) == \E kw \in kws : contains(p, kw)

\* the match on the port, lines 153-159
classify_by_port(port) ==
    IF port \in DevPorts THEN "Dev"
    ELSE IF port \in DatabasePorts THEN "Database"
    ELSE IF port \in ContainerPorts THEN "Container"
    ELSE IF port \in SystemPorts THEN "System"
    ELSE "Unknown"

\* classify_by_process with the Dev keywords tested before the System ones
classify_by_process_dev_first(process) ==
    IF ~IsSome(process) THEN None
    ELSE LET p == to_lowercase(Unwrap(process)) IN
         IF ContainsAny(p, DevKeywords) THEN Some("Dev")
         ELSE IF ContainsAny(p, SystemKeywords) THEN Some("System")
         ELSE IF ContainsAny(p, DatabaseKeywords) THEN Some("Database")
         ELSE IF ContainsAny(p, ContainerKeywords) THEN Some("Container")
         ELSE None

\* the process-based rules, lines 121-150: Some(kind) on a return, None on
\* falling through to the port rules
classify_by_process(process) ==
    IF ~IsSome(process) THEN None
    ELSE LET p == to_lowercase(Unwrap(process)) IN
         IF ContainsAny(p, SystemKeywords) THEN Some("System")
         ELSE IF ContainsAny(p, DevKeywords) THEN Some("Dev")
         ELSE IF ContainsAny(p, DatabaseKeywords) THEN Some("Database")
         ELSE IF ContainsAny(p, ContainerKeywords) THEN Some("Container")
         ELSE None

\* classify with the port rules applied only to an absent process name
classify_no_fallback(port, process) ==
    LET byName == classify_by_process(process) IN
    IF IsSome(byName) THEN Unwrap(byName)
    ELSE IF IsSome(process) THEN "Unknown"
    ELSE classify_by_port(port)

classify(port, process) ==
    LET byName == classify_by_process(process) IN
    IF IsSome(byName) THEN Unwrap(byName) ELSE classify_by_port(port)

---------------------------------------------------------------------------
(* get_friendly_container_name, is_generic_name: src/src/main.rs 1111-1135 *)

\* char::is_ascii_hexdigit
is_ascii_hexdigit(c) ==
    \/ is_ascii_digit(c)
    \/ c \in {"a","b","c","d","e","f","A","B","C","D","E","F"}

\* positions of character c in s
Positions(s, c) == { i \in 1..Len(s) : s[i] = c }

MaxOf(S) == CHOOSE x \in S : \A y \in S : x >= y
MinOf(S) == CHOOSE x \in S : \A y \in S : x <= y

\* s.split(c).next(): the text before the first c, all of s without one
split_first(s, c) ==
    IF Positions(s, c) = {} THEN s
    ELSE SubSeq(s, 1, MinOf(Positions(s, c)) - 1)

\* s.split(c).last(): the text after the last c, all of s without one
split_last(s, c) ==
    IF Positions(s, c) = {} THEN s
    ELSE SubSeq(s, MaxOf(Positions(s, c)) + 1, Len(s))

\* lines 1113-1119
image_base(image) == split_last(split_first(image, ":"), "/")

GenericNameLen == 20

\* is_generic_name with the length test off by one (>= instead of >)
is_generic_name_ge(name) ==
    \/ Len(name) >= GenericNameLen
    \/ \A i \in 1..Len(name) : is_ascii_hexdigit(name[i]) \/ name[i] = "-"

is_generic_name(name) ==
    \/ Len(name) > GenericNameLen
    \/ \A i \in 1..Len(name) : is_ascii_hexdigit(name[i]) \/ name[i] = "-"

ContainerSuffix == <<" ","(","c","o","n","t","a","i","n","e","r",")">>

get_friendly_container_name(container_name, image) ==
    LET base == image_base(image)
        display_name ==
            IF is_generic_name(container_name) /\ ~is_generic_name(base)
            THEN base ELSE container_name
    IN display_name \o ContainerSuffix


---------------------------------------------------------------------------
(* Number parsing: str::parse::<u16>, str::parse::<u32> *)

\* u16::MAX and u32::MAX in decimal
U16MaxDigits == <<"6","5","5","3","5">>
U32MaxDigits == <<"4","2","9","4","9","6","7","2","9","5">>

RECURSIVE strip_zeros(_)
strip_zeros(ds) ==
    IF ds # <<>> /\ ds[1] = "0" THEN strip_zeros(Tail(ds)) ELSE ds

\* a <= b for digit strings of equal length
RECURSIVE digits_leq(_, _)
digits_leq(a, b) ==
    IF a = <<>> THEN TRUE
    ELSE IF DigitValue(a[1]) # DigitValue(b[1])
    THEN DigitValue(a[1]) < DigitValue(b[1])
    ELSE digits_leq(Tail(a), Tail(b))

\* the number written ds is at most the number written max
decimal_leq(ds, max) ==
    LET a == strip_zeros(ds) IN
    \/ Len(a) < Len(max)
    \/ Len(a) = Len(max) /\ digits_leq(a, max)

\* the number a digit string within range writes (the model's pids stay
\* below 2^31)
RECURSIVE DecimalValue(_)
DecimalValue(ds) ==
    IF ds = <<>> THEN 0
    ELSE 10 * DecimalValue(SubSeq(ds, 1, Len(ds) - 1)) + DigitValue(ds[Len(ds)])

\* FromStr for an unsigned integer: an optional "+", then one or more
\* digits, the value at most max; anything else is an error (None)
parse_unsigned(s, max) ==
    LET ds == IF s # <<>> /\ s[1] = "+" THEN Tail(s) ELSE s IN
    IF ds = <<>> \/ \E i \in 1..Len(ds) : ~is_ascii_digit(ds[i]) THEN None
    ELSE IF ~decimal_leq(ds, max) THEN None
    ELSE Some(DecimalValue(ds))

parse_u16(s) == parse_unsigned(s, U16MaxDigits)
parse_u32(s) == parse_unsigned(s, U32MaxDigits)

\* chars().take_while(is_ascii_digit)
RECURSIVE take_while_digit(_)
take_while_digit(s) ==
    IF s = <<>> \/ ~is_ascii_digit(s[1]) THEN <<>>
    ELSE <<s[1]>> \o take_while_digit(Tail(s))

---------------------------------------------------------------------------
(* extract_port: src/src/main.rs 1176-1190 *)
extract_port(addr) ==
    IF Positions(addr, ":") = {} THEN None
    ELSE LET colon_pos == MaxOf(Positions(addr, ":"))
             after == SubSeq(addr, colon_pos + 1, Len(addr))
             digits == take_while_digit(after)
         IN IF digits = <<>> THEN None ELSE parse_u16(digits)

---------------------------------------------------------------------------
(* The process table read through libproc: src/src/main.rs 1193-1235.     *)
(* procs maps a pid to [name, path], each an Option; a pid outside it is  *)
(* not found.                                                             *)
get_process_name_libproc(procs, pid) ==
    IF pid \in DOMAIN procs THEN procs[pid].name ELSE None

get_exec_path_libproc(procs, pid) ==
    IF pid \in DOMAIN procs THEN procs[pid].path ELSE None

\* Option::or_else
or_else(o, alt) == IF IsSome(o) THEN o ELSE alt

---------------------------------------------------------------------------
(* discover_ports, the parse loop: src/src/main.rs 958-1004 *)

\* the entry pushed for an accepted address marker, lines 986-998
new_entry(procs, pid, port, current_cmd) ==
    LET process == or_else(get_process_name_libproc(procs, pid), current_cmd)
    IN [ port |-> port,
         pid |-> Some(pid),
         process |-> process,
         exec_path |-> get_exec_path_libproc(procs, pid),
         kind |-> classify(port, process) ]

\* line 974 left out: the command label survives a process-id marker
cmd_kept_after_pid_marker(current_cmd) == current_cmd

\* line 974: current_cmd = None, reset for the new process
cmd_after_pid_marker(current_cmd) == None

RECURSIVE parse_lsof(_, _, _, _, _, _)
parse_lsof(lines, i, current_pid, current_cmd, entries, procs) ==
    IF i > Len(lines) THEN entries
    ELSE
      LET line == lines[i] IN
      IF line = <<>>
      THEN parse_lsof(lines, i + 1, current_pid, current_cmd, entries, procs)
      ELSE
        LET field_type == line[1]
            value == Tail(line)
        IN
        IF field_type = "p"
        THEN parse_lsof(lines, i + 1, parse_u32(value),
                        cmd_after_pid_marker(current_cmd), entries, procs)
        ELSE IF field_type = "c"
        THEN parse_lsof(lines, i + 1, current_pid, Some(value), entries, procs)
        ELSE IF field_type = "n" /\ IsSome(current_pid)
                  /\ IsSome(extract_port(value))
        THEN parse_lsof(lines, i + 1, current_pid, current_cmd,
                 Append(entries,
                        new_entry(procs, Unwrap(current_pid),
                                  Unwrap(extract_port(value)), current_cmd)),
                 procs)
        ELSE parse_lsof(lines, i + 1, current_pid, current_cmd, entries, procs)

---------------------------------------------------------------------------
(* discover_ports, deduplication by (port, pid): src/src/main.rs 1006-1017 *)

\* the filter closure: TRUE keeps the entry; HashSet::insert is TRUE when
\* the pair was not in the set
RECURSIVE dedup_from(_, _, _, _)
dedup_from(entries, i, seen, kept) ==
    IF i > Len(entries) THEN kept
    ELSE
      LET e == entries[i] IN
      IF IsSome(e.pid)
      THEN LET key == <<e.port, Unwrap(e.pid)>> IN
           IF key \in seen
           THEN dedup_from(entries, i + 1, seen, kept)
           ELSE dedup_from(entries, i + 1, seen \cup {key}, Append(kept, e))
      ELSE dedup_from(entries, i + 1, seen, Append(kept, e))

\* dedup_from keeping every entry (the filter dropped)
dedup_keep_all(entries) == entries

dedup(entries) == dedup_from(entries, 1, {}, <<>>)

---------------------------------------------------------------------------
(* result.sort_by_key(|e| e.port), a stable sort: src/src/main.rs 1024 *)
RECURSIVE insert_by_port(_, _)
insert_by_port(sorted, e) ==
    IF sorted = <<>> THEN <<e>>
    ELSE IF sorted[Len(sorted)].port <= e.port THEN Append(sorted, e)
    ELSE Append(insert_by_port(SubSeq(sorted, 1, Len(sorted) - 1), e),
                sorted[Len(sorted)])

RECURSIVE sort_by_port_upto(_, _)
sort_by_port_upto(entries, n) ==
    IF n = 0 THEN <<>>
    ELSE insert_by_port(sort_by_port_upto(entries, n - 1), entries[n])

sort_by_key_port(entries) == sort_by_port_upto(entries, Len(entries))

---------------------------------------------------------------------------
(* More text helpers: splitn, split, trim, find *)

\* str::splitn(n, c), n >= 1
RECURSIVE splitn(_, _, _)
splitn(n, s, c) ==
    IF n <= 1 \/ Positions(s, c) = {} THEN <<s>>
    ELSE LET k == MinOf(Positions(s, c)) IN
         <<SubSeq(s, 1, k - 1)>> \o splitn(n - 1, SubSeq(s, k + 1, Len(s)), c)

\* str::split(c)
split(s, c) == splitn(Len(s) + 1, s, c)

\* str::trim, on the ASCII whitespace the commands print
RECURSIVE trim(_)
trim(s) ==
    IF s = <<>> THEN s
    ELSE IF s[1] \in {" ", "\t", "\n", "\r"} THEN trim(Tail(s))
    ELSE IF s[Len(s)] \in {" ", "\t", "\n", "\r"}
    THEN trim(SubSeq(s, 1, Len(s) - 1))
    ELSE s

\* str::find(pat): Some(0-based offset of the first occurrence)
find(s, pat) ==
    LET at == { i \in 0..(Len(s) - Len(pat)) :
                    SubSeq(s, i + 1, i + Len(pat)) = pat }
    IN IF at = {} THEN None ELSE Some(MinOf(at))

---------------------------------------------------------------------------
(* enrich_docker_containers: src/src/main.rs 1029-1108 *)

\* HashMap::insert / HashMap::get on a function from keys to values
map_insert(m, k, v) == [x \in DOMAIN m \cup {k} |-> IF x = k THEN v ELSE m[x]]
EmptyMap == [x \in {} |-> <<>>]

\* one port mapping, lines 1070-1083: Some(host port) when it is inserted
mapping_host_port(port_mapping_raw) ==
    LET port_mapping == trim(port_mapping_raw)
        arrow_pos == find(port_mapping, <<"-", ">">>)
    IN IF ~IsSome(arrow_pos) THEN None
       ELSE LET before_arrow == SubSeq(port_mapping, 1, Unwrap(arrow_pos)) IN
            IF Positions(before_arrow, ":") = {} THEN None
            ELSE LET colon_pos == MaxOf(Positions(before_arrow, ":")) IN
                 parse_u16(SubSeq(before_arrow, colon_pos + 1,
                                  Len(before_arrow)))

\* the loop over the mappings of one line, lines 1069-1084
RECURSIVE insert_mappings(_, _, _, _, _)
insert_mappings(m, mappings, j, container_name, image) ==
    IF j > Len(mappings) THEN m
    ELSE LET port == mapping_host_port(mappings[j]) IN
         insert_mappings(
             IF IsSome(port)
             THEN map_insert(m, Unwrap(port), <<container_name, image>>)
             ELSE m,
             mappings, j + 1, container_name, image)

\* the loop over the output lines, lines 1052-1085
RECURSIVE build_port_to_container(_, _, _)
build_port_to_container(lines, i, m) ==
    IF i > Len(lines) THEN m
    ELSE
      LET line == lines[i]
          parts == splitn(4, line, "|")
      IN IF line = <<>> \/ Len(parts) < 4
         THEN build_port_to_container(lines, i + 1, m)
         ELSE build_port_to_container(lines, i + 1,
                  insert_mappings(m, split(parts[4], ","), 1,
                                  parts[2], parts[3]))

\* guess_service_by_port: src/src/main.rs 1138-1173
guess_service_by_port(port) ==
    CASE port = 5432 -> Some(<<"p","o","s","t","g","r","e","s","q","l">>)
      [] port = 3306 -> Some(<<"m","y","s","q","l">>)
      [] port = 6379 -> Some(<<"r","e","d","i","s">>)
      [] port = 27017 -> Some(<<"m","o","n","g","o","d","b">>)
      [] port = 7474 -> Some(<<"n","e","o","4","j","-","h","t","t","p">>)
      [] port = 7473 -> Some(<<"n","e","o","4","j","-","h","t","t","p","s">>)
      [] port = 7687 -> Some(<<"n","e","o","4","j","-","b","o","l","t">>)
      [] port = 9200 ->
            Some(<<"e","l","a","s","t","i","c","s","e","a","r","c","h">>)
      [] port = 9300 ->
            Some(<<"e","l","a","s","t","i","c","s","e","a","r","c","h","-",
                   "c","l","u","s","t","e","r">>)
      [] port = 5672 -> Some(<<"r","a","b","b","i","t","m","q">>)
      [] port = 15672 ->
            Some(<<"r","a","b","b","i","t","m","q","-","m","g","m","t">>)
      [] port = 11211 -> Some(<<"m","e","m","c","a","c","h","e","d">>)
      [] port = 5984 -> Some(<<"c","o","u","c","h","d","b">>)
      [] port = 9042 -> Some(<<"c","a","s","s","a","n","d","r","a">>)
      [] port = 8086 -> Some(<<"i","n","f","l","u","x","d","b">>)
      [] port = 9092 -> Some(<<"k","a","f","k","a">>)
      [] port = 9000 -> Some(<<"m","i","n","i","o">>)
      [] port = 9001 ->
            Some(<<"m","i","n","i","o","-","c","o","n","s","o","l","e">>)
      [] OTHER -> None

DockerWord == <<"d","o","c","k","e","r">>

\* enrich_entry renaming every entry whose port a container publishes,
\* whatever its kind and process name
enrich_entry_any_kind(entry, port_to_container) ==
    IF entry.port \in DOMAIN port_to_container
    THEN [entry EXCEPT !.process =
             Some(get_friendly_container_name(
                      port_to_container[entry.port][1],
                      port_to_container[entry.port][2]))]
    ELSE entry

\* enrich_entry consulting the static service table before the containers
enrich_entry_table_first(entry, port_to_container) ==
    IF entry.kind = "Container" /\ IsSome(entry.process)
          /\ contains(to_lowercase(Unwrap(entry.process)), DockerWord)
    THEN IF IsSome(guess_service_by_port(entry.port))
         THEN [entry EXCEPT !.process =
                  Some(Unwrap(guess_service_by_port(entry.port))
                           \o ContainerSuffix)]
         ELSE IF entry.port \in DOMAIN port_to_container
         THEN [entry EXCEPT !.process =
                  Some(get_friendly_container_name(
                           port_to_container[entry.port][1],
                           port_to_container[entry.port][2]))]
         ELSE entry
    ELSE entry

\* the body of the loop over the entries, lines 1089-1106
enrich_entry(entry, port_to_container) ==
    IF entry.kind = "Container" /\ IsSome(entry.process)
          /\ contains(to_lowercase(Unwrap(entry.process)), DockerWord)
    THEN IF entry.port \in DOMAIN port_to_container
         THEN [entry EXCEPT !.process =
                  Some(get_friendly_container_name(
                           port_to_container[entry.port][1],
                           port_to_container[entry.port][2]))]
         ELSE IF IsSome(guess_service_by_port(entry.port))
         THEN [entry EXCEPT !.process =
                  Some(Unwrap(guess_service_by_port(entry.port))
                           \o ContainerSuffix)]
         ELSE entry
    ELSE entry

\* enrich_docker_containers going on after a failed query
enrich_docker_containers_ignore_status(entries, docker) ==
    LET built == { build_port_to_container(docker.lines, 1, EmptyMap) }
        port_to_container == CHOOSE m \in built : TRUE
    IN [i \in 1..Len(entries) |->
            enrich_entry(entries[i], port_to_container)]

\* docker is the outcome of the container-runtime query:
\* [status: "spawn_error" | "exit_nonzero" | "ok", lines: the output lines]
enrich_docker_containers(entries, docker) ==
    IF docker.status # "ok" THEN entries
    ELSE LET built == { build_port_to_container(docker.lines, 1, EmptyMap) }
             port_to_container == CHOOSE m \in built : TRUE
         IN [i \in 1..Len(entries) |->
                 enrich_entry(entries[i], port_to_container)]

---------------------------------------------------------------------------
(* discover_ports as a whole: src/src/main.rs 930-1026 *)

NotRun == [status |-> "not_run", lines |-> <<>>]

\* discover_ports that parses the output whatever the exit status
discover_ports_ignore_status(lsof, procs, docker) ==
    IF lsof.status = "spawn_error"
    THEN [ok |-> FALSE, raw |-> <<>>, unique |-> <<>>, enriched |-> <<>>,
          entries |-> <<>>, docker |-> NotRun]
    ELSE LET raw == parse_lsof(lsof.lines, 1, None, None, <<>>, procs)
             unique == dedup(raw)
             enriched == enrich_docker_containers(unique, docker)
         IN [ok |-> TRUE, raw |-> raw, unique |-> unique,
             enriched |-> enriched, entries |-> sort_by_key_port(enriched),
             docker |-> docker]

\* lsof is the outcome of the listener enumeration:
\* [status: "spawn_error" | "exit_nonzero" | "ok", lines: the output lines].
\* The value is the Result (ok, entries) with the locals raw (entries),
\* unique (unique_entries) and enriched (result before the sort), and the
\* container-runtime query as it was made (NotRun when it was not).
discover_ports(lsof, procs, docker) ==
    IF lsof.status # "ok"
    THEN [ok |-> FALSE, raw |-> <<>>, unique |-> <<>>, enriched |-> <<>>,
          entries |-> <<>>, docker |-> NotRun]
    ELSE LET raw == parse_lsof(lsof.lines, 1, None, None, <<>>, procs)
             unique == dedup(raw)
             enriched == enrich_docker_containers(unique, docker)
         IN [ok |-> TRUE, raw |-> raw, unique |-> unique,
             enriched |-> enriched, entries |-> sort_by_key_port(enriched),
             docker |-> docker]

\* main, lines 212-215: discover_ports().unwrap_or_else(|e| vec![])
unwrap_or_empty(result) == IF result.ok THEN result.entries ELSE <<>>

---------------------------------------------------------------------------
(* The table filters: src/src/main.rs 98-117 *)
filter_default(entries) ==
    LET keep(e) == e.kind \in {"Dev", "Unknown"} IN SelectSeq(entries, keep)

filter_dev(entries) ==
    LET keep(e) == e.kind = "Dev" IN SelectSeq(entries, keep)

filter_prod(entries) ==
    LET keep(e) == e.kind \in {"Dev", "Container"} IN SelectSeq(entries, keep)

\* entries.iter().filter(|e| e.port == port), lines 251, 270, 285
found_on_port(entries, port) ==
    LET keep(e) == e.port = port IN SelectSeq(entries, keep)

---------------------------------------------------------------------------
(* cmd_kill, the targets: src/src/main.rs 291-301 *)
RECURSIVE target_pids_from(_, _, _, _)
target_pids_from(found, i, seen_pids, target_pids) ==
    IF i > Len(found) THEN target_pids
    ELSE
      LET entry == found[i] IN
      IF IsSome(entry.pid) /\ IsSome(entry.process)
            /\ Unwrap(entry.pid) \notin seen_pids
      THEN target_pids_from(found, i + 1,
               seen_pids \cup {Unwrap(entry.pid)},
               Append(target_pids, <<Unwrap(entry.pid), Unwrap(entry.process)>>))
      ELSE target_pids_from(found, i + 1, seen_pids, target_pids)

target_pids_of(found) == target_pids_from(found, 1, {}, <<>>)

\* kill(pid, signal) of nix: Ok when the process exists and may be
\* signalled, Err(ESRCH | EPERM) otherwise
kill_ok(pid, live, allowed) == pid \in live /\ pid \in allowed

---------------------------------------------------------------------------
(* The detail sub-queries: src/src/main.rs 433-761.  An external command  *)
(* is given by its outcome [status, lines]: it could not be started       *)
(* ("spawn_error"), exited non-zero, or exited zero ("ok") having written *)
(* the lines.                                                             *)

Whitespace == {" ", "\t", "\n", "\r"}

succeeded(outcome) == outcome.status = "ok"

\* the standard output as one text
RECURSIVE stdout_text(_)
stdout_text(lines) ==
    IF lines = <<>> THEN <<>>
    ELSE lines[1] \o <<"\n">> \o stdout_text(Tail(lines))

\* str::rsplitn(n, char::is_whitespace), n >= 1: pieces from the right
RECURSIVE rsplitn_whitespace(_, _)
rsplitn_whitespace(n, s) ==
    LET at == { i \in 1..Len(s) : s[i] \in Whitespace } IN
    IF n <= 1 \/ at = {} THEN <<s>>
    ELSE LET k == MaxOf(at) IN
         <<SubSeq(s, k + 1, Len(s))>>
             \o rsplitn_whitespace(n - 1, SubSeq(s, 1, k - 1))

\* str::split_whitespace
RECURSIVE split_whitespace_from(_, _, _)
split_whitespace_from(s, i, word) ==
    LET flushed == IF word = <<>> THEN <<>> ELSE <<word>> IN
    IF i > Len(s) THEN flushed
    ELSE IF s[i] \in Whitespace
    THEN flushed \o split_whitespace_from(s, i + 1, <<>>)
    ELSE split_whitespace_from(s, i + 1, Append(word, s[i]))

split_whitespace(s) == split_whitespace_from(s, 1, <<>>)

\* u64::MAX in decimal
U64MaxDigits ==
    <<"1","8","4","4","6","7","4","4","0","7","3","7","0","9","5","5","1",
      "6","1","5">>

parse_u64(s) == parse_unsigned(s, U64MaxDigits)

\* an f64 is kept as its whole part and its fraction digits without
\* trailing zeros
F64Zero == [whole |-> 0, frac |-> <<>>]

RECURSIVE strip_trailing_zeros(_)
strip_trailing_zeros(ds) ==
    IF ds # <<>> /\ ds[Len(ds)] = "0"
    THEN strip_trailing_zeros(SubSeq(ds, 1, Len(ds) - 1)) ELSE ds

AllDigits(ds) == \A i \in 1..Len(ds) : is_ascii_digit(ds[i])

\* FromStr for f64 on the plain decimal notation ps prints: an optional
\* sign, digits, and at most one "." with digits on at least one side
parse_f64(s) ==
    LET us == IF s # <<>> /\ s[1] = "+" THEN Tail(s) ELSE s
        dots == Positions(us, ".")
        k == IF dots = {} THEN Len(us) + 1 ELSE MinOf(dots)
        whole == SubSeq(us, 1, k - 1)
        frac == SubSeq(us, k + 1, Len(us))
    IN IF Cardinality(dots) <= 1 /\ AllDigits(whole) /\ AllDigits(frac)
          /\ Len(whole) + Len(frac) > 0
       THEN Some([whole |-> DecimalValue(whole),
                  frac |-> strip_trailing_zeros(frac)])
       ELSE None

\* Option::unwrap_or
unwrap_or(o, alt) == IF IsSome(o) THEN Unwrap(o) ELSE alt

Unknown == <<"u","n","k","n","o","w","n">>

---------------------------------------------------------------------------
(* get_environment_variables: src/src/main.rs 670-712 *)

important_vars ==
    { <<"N","O","D","E","_","E","N","V">>,
      <<"P","O","R","T">>,
      <<"D","A","T","A","B","A","S","E","_","U","R","L">>,
      <<"R","A","I","L","S","_","E","N","V">>,
      <<"F","L","A","S","K","_","E","N","V">>,
      <<"D","J","A","N","G","O","_","S","E","T","T","I","N","G","S","_",
        "M","O","D","U","L","E">>,
      <<"P","Y","T","H","O","N","_","E","N","V">>,
      <<"G","O","_","E","N","V">>,
      <<"R","U","S","T","_","E","N","V">>,
      <<"P","A","T","H">>,
      <<"H","O","M","E">>,
      <<"U","S","E","R">>,
      <<"P","W","D">>,
      <<"L","A","N","G">> }

RECURSIVE important_pairs(_)
important_pairs(parts) ==
    IF parts = <<>> THEN <<>>
    ELSE LET part == parts[1]
             eq_pos == find(part, <<"=">>)
             key == SubSeq(part, 1, Unwrap(eq_pos))
             value == SubSeq(part, Unwrap(eq_pos) + 2, Len(part))
         IN (IF IsSome(eq_pos) /\ key \in important_vars
             THEN <<<<key, value>>>> ELSE <<>>)
                \o important_pairs(Tail(parts))

RECURSIVE env_vars_of_lines(_)
env_vars_of_lines(lines) ==
    IF lines = <<>> THEN <<>>
    ELSE important_pairs(split_whitespace(lines[1]))
            \o env_vars_of_lines(Tail(lines))

get_environment_variables(eww) ==
    IF ~succeeded(eww) THEN <<>> ELSE env_vars_of_lines(eww.lines)

---------------------------------------------------------------------------
(* get_combined_ps_info: src/src/main.rs 433-508.  ps holds the outcomes   *)
(* of its five commands.                                                  *)

\* #[derive(Default)] of CombinedPsInfo, lines 410-422
CombinedPsInfoDefault ==
    [command |-> None, user_name |-> <<>>, uid |-> 0, uptime |-> <<>>,
     start_time |-> <<>>, memory_rss |-> 0, memory_virtual |-> 0,
     cpu_usage |-> F64Zero, thread_count |-> 0, env_vars |-> <<>>]

\* lines 436-439 left out
ps_info_initial_zero_values == CombinedPsInfoDefault

\* lines 436-439
ps_info_initial ==
    [CombinedPsInfoDefault EXCEPT !.user_name = Unknown,
                                  !.uptime = Unknown,
                                  !.start_time = Unknown]

\* lines 446-465
ps_info_after_main(info, main) ==
    IF ~succeeded(main) THEN info
    ELSE LET text == trim(stdout_text(main.lines))
             parts == rsplitn_whitespace(7, text)
         IN IF Len(parts) < 6 THEN info
            ELSE [info EXCEPT
                    !.uptime = trim(parts[1]),
                    !.cpu_usage = unwrap_or(parse_f64(trim(parts[2])), F64Zero),
                    !.memory_virtual = unwrap_or(parse_u64(trim(parts[3])), 0),
                    !.memory_rss = unwrap_or(parse_u64(trim(parts[4])), 0),
                    !.uid = unwrap_or(parse_u32(trim(parts[5])), 0),
                    !.user_name = trim(parts[6]),
                    !.command = IF Len(parts) >= 7 THEN Some(parts[7])
                                ELSE @]

\* lines 472-479
ps_info_after_cmd(info, cmd_output) ==
    LET cmd == trim(stdout_text(cmd_output.lines)) IN
    IF succeeded(cmd_output) /\ cmd # <<>>
    THEN [info EXCEPT !.command = Some(cmd)] ELSE info

\* lines 486-490
ps_info_after_lstart(info, lstart_output) ==
    IF succeeded(lstart_output)
    THEN [info EXCEPT !.start_time = trim(stdout_text(lstart_output.lines))]
    ELSE info

\* lines().count().saturating_sub(1).max(1), line 500
thread_count_of(lines) == IF Len(lines) - 1 > 1 THEN Len(lines) - 1 ELSE 1

\* lines 497-502
ps_info_after_threads(info, thread_output) ==
    IF succeeded(thread_output)
    THEN [info EXCEPT !.thread_count = thread_count_of(thread_output.lines)]
    ELSE info

get_combined_ps_info(ps) ==
    LET a == ps_info_after_main(ps_info_initial, ps.main)
        b == ps_info_after_cmd(a, ps.cmd)
        c == ps_info_after_lstart(b, ps.lstart)
        d == ps_info_after_threads(c, ps.threads)
    IN [d EXCEPT !.env_vars = get_environment_variables(ps.eww)]

---------------------------------------------------------------------------
(* get_combined_lsof_info: src/src/main.rs 511-573 *)

\* #[derive(Default)] of CombinedLsofInfo, lines 424-430
CombinedLsofInfoDefault ==
    [working_dir |-> None, file_descriptors |-> 0, listen_addresses |-> <<>>,
     other_ports |-> <<>>]

\* a set of ports as the sorted vector of lines 550-551
RECURSIVE sorted_ports(_)
sorted_ports(S) ==
    IF S = {} THEN <<>>
    ELSE <<MinOf(S)>> \o sorted_ports(S \ {MinOf(S)})

\* the loop of lines 526-548 from line i on
RECURSIVE scan_open_files(_, _, _, _, _)
scan_open_files(lines, i, current_port, info, ports_seen) ==
    IF i > Len(lines)
    THEN [info EXCEPT !.other_ports = sorted_ports(ports_seen)]
    ELSE LET line == lines[i]
             value == Tail(line)
             port == IF line # <<>> /\ line[1] = "n" /\ contains(value, <<":">>)
                     THEN extract_port(value) ELSE None
             counted == [info EXCEPT !.file_descriptors = @ + 1]
         IN IF IsSome(port) /\ Unwrap(port) = current_port
            THEN scan_open_files(lines, i + 1, current_port,
                    [counted EXCEPT !.listen_addresses = Append(@, value)],
                    ports_seen)
            ELSE IF IsSome(port)
            THEN scan_open_files(lines, i + 1, current_port, counted,
                                 ports_seen \cup {Unwrap(port)})
            ELSE scan_open_files(lines, i + 1, current_port, counted,
                                 ports_seen)

\* lines 560-570: the first line that begins with "n"
first_name_line(lines) ==
    LET at == { i \in 1..Len(lines) : lines[i] # <<>> /\ lines[i][1] = "n" }
    IN IF at = {} THEN None ELSE Some(Tail(lines[MinOf(at)]))

\* lsof holds the outcomes of the two commands
get_combined_lsof_info(lsof, current_port) ==
    LET scanned == IF succeeded(lsof.files)
                   THEN scan_open_files(lsof.files.lines, 1, current_port,
                                        CombinedLsofInfoDefault, {})
                   ELSE CombinedLsofInfoDefault
    IN IF succeeded(lsof.cwd) /\ IsSome(first_name_line(lsof.cwd.lines))
       THEN [scanned EXCEPT !.working_dir = first_name_line(lsof.cwd.lines)]
       ELSE scanned

---------------------------------------------------------------------------
(* get_child_processes: src/src/main.rs 625-651 *)

RECURSIVE children_of_lines(_, _)
children_of_lines(lines, procs) ==
    IF lines = <<>> THEN <<>>
    ELSE LET child_pid == parse_u32(trim(lines[1]))
             name == IF IsSome(child_pid)
                     THEN get_process_name_libproc(procs, Unwrap(child_pid))
                     ELSE None
         IN (IF IsSome(name) THEN <<<<Unwrap(child_pid), Unwrap(name)>>>>
             ELSE <<>>)
                \o children_of_lines(Tail(lines), procs)

get_child_processes(pgrep, procs) ==
    IF ~succeeded(pgrep) THEN <<>> ELSE children_of_lines(pgrep.lines, procs)

---------------------------------------------------------------------------
(* count_active_connections: src/src/main.rs 654-667 *)
count_active_connections(established) ==
    IF succeeded(established) THEN Len(established.lines) ELSE 0

---------------------------------------------------------------------------
(* get_docker_info: src/src/main.rs 715-761 *)

\* Display of an unsigned integer
RECURSIVE to_string(_)
to_string(n) ==
    LET digit == Digits[(n % 10) + 1] IN
    IF n < 10 THEN <<digit>> ELSE Append(to_string(n \div 10), digit)

\* line 743
exposes_port(ports_str, port) ==
    \/ contains(ports_str, <<":">> \o to_string(port))
    \/ contains(ports_str, <<"-",">">> \o to_string(port) \o <<"/"," ">>)

\* lines 744-748
RECURSIVE trimmed_nonempty(_)
trimmed_nonempty(pieces) ==
    IF pieces = <<>> THEN <<>>
    ELSE (IF pieces[1] = <<>> THEN <<>> ELSE <<trim(pieces[1])>>)
            \o trimmed_nonempty(Tail(pieces))

\* the loop of lines 734-758 from line i on
RECURSIVE first_exposing_container(_, _, _)
first_exposing_container(lines, i, port) ==
    IF i > Len(lines) THEN None
    ELSE LET parts == splitn(6, lines[i], "|") IN
         IF Len(parts) < 6 \/ ~exposes_port(parts[6], port)
         THEN first_exposing_container(lines, i + 1, port)
         ELSE Some([container_id |-> parts[1],
                    container_name |-> parts[2],
                    image |-> parts[3],
                    status |-> parts[4],
                    volumes |-> trimmed_nonempty(split(parts[5], ","))])

get_docker_info(port, process_name, docker) ==
    IF ~contains(to_lowercase(process_name), DockerWord)
          /\ ~contains(to_lowercase(process_name),
                       <<"c","o","m",".">> \o DockerWord)
    THEN None
    ELSE IF ~succeeded(docker) THEN None
    ELSE first_exposing_container(docker.lines, 1, port)

---------------------------------------------------------------------------
(* get_detailed_port_info: src/src/main.rs 332-408.  A spawned task is    *)
(* running, or has finished with the value its sub-query returned, or has *)
(* panicked.                                                              *)

Tasks == {"ps", "lsof", "parent", "children", "connections", "docker"}

\* the order of the joins, lines 376-381
JoinOrder == <<"ps", "lsof", "parent", "children", "connections", "docker">>

Running == [status |-> "running", value |-> <<>>]
Panicked == [status |-> "panicked", value |-> <<>>]
Finished(v) == [status |-> "finished", value |-> <<v>>]

\* JoinHandle::join().unwrap_or(d) and unwrap_or_default(), of a task
\* that is no longer running; this one drops the value of a finished task
join_or_always_default(task, d) == d

join_or(task, d) == IF task.status = "finished" THEN task.value[1] ELSE d

\* lines 383-407: the record, as the Result [ok, info]
detailed_port_info(port, pid, kind, process_name, exec_path, ps_info, lsof_info, parent_chain, children, active_connections, docker_info) ==
    [ok |-> TRUE,
     info |-> <<[
        port |-> port,
        pid |-> pid,
        process_name |-> process_name,
        command |-> unwrap_or(ps_info.command, Unknown),
        working_dir |-> lsof_info.working_dir,
        exec_path |-> exec_path,
        user_name |-> ps_info.user_name,
        uid |-> ps_info.uid,
        parent_chain |-> parent_chain,
        children |-> children,
        uptime |-> ps_info.uptime,
        start_time |-> ps_info.start_time,
        memory_rss |-> ps_info.memory_rss,
        memory_virtual |-> ps_info.memory_virtual,
        cpu_usage |-> ps_info.cpu_usage,
        thread_count |-> ps_info.thread_count,
        file_descriptors |-> lsof_info.file_descriptors,
        listen_addresses |-> lsof_info.listen_addresses,
        active_connections |-> active_connections,
        other_ports |-> lsof_info.other_ports,
        env_vars |-> ps_info.env_vars,
        kind |-> kind,
        docker_info |-> docker_info]>>]

\* the joins with the two process lists taken from each other's task
join_all_crossed(port, pid, kind, process_name, exec_path, tasks) ==
    detailed_port_info(port, pid, kind, process_name, exec_path,
        join_or(tasks["ps"], CombinedPsInfoDefault),
        join_or(tasks["lsof"], CombinedLsofInfoDefault),
        join_or(tasks["children"], <<>>),
        join_or(tasks["parent"], <<>>),
        join_or(tasks["connections"], 0),
        join_or(tasks["docker"], None))

\* lines 376-407: the joins and the record
join_all(port, pid, kind, process_name, exec_path, tasks) ==
    detailed_port_info(port, pid, kind, process_name, exec_path,
        join_or(tasks["ps"], CombinedPsInfoDefault),
        join_or(tasks["lsof"], CombinedLsofInfoDefault),
        join_or(tasks["parent"], <<>>),
        join_or(tasks["children"], <<>>),
        join_or(tasks["connections"], 0),
        join_or(tasks["docker"], None))

---------------------------------------------------------------------------
(* The classifier applied to sample inputs *)

\* Pieces the sample process names are concatenated from: keywords of the
\* four sets, upper-case spellings, halves of a keyword and fillers.
NamePieces ==
    { <<"c","u","p","s">>, <<"A","i","r","P","l","a","y">>,
      <<"N","o","d","e">>, <<"n","p","m">>,
      <<"r","e","d","i","s">>, <<"p","o","s","t","g","r","e","s">>,
      <<"d","o","c","k">>, <<"e","r">>, <<"p","o","d","m","a","n">>,
      <<"s","s","h","d">>, <<"-","w","o","r","k","e","r">> }

MaxNamePieces == 2

RECURSIVE NamesUpTo(_)
NamesUpTo(n) ==
    IF n = 0 THEN { <<>> }
    ELSE LET shorter == NamesUpTo(n - 1) IN
         shorter \cup { a \o b : a \in shorter, b \in NamePieces }

SampleNames == NamesUpTo(MaxNamePieces)

\* every port of the port table, and three ports outside it
SamplePorts ==
    DevPorts \cup DatabasePorts \cup ContainerPorts \cup SystemPorts
        \cup {1, 80, 9999}

\* one call classify(port, process)
ClassifyCall ==
    /\ cl_pc = "idle"
    /\ \E port \in SamplePorts :
       \E process \in {None} \cup { Some(n) : n \in SampleNames } :
          /\ cl_port' = port
          /\ cl_process' = process
          /\ cl_kind' = classify(port, process)
    /\ cl_pc' = "done"
    /\ UNCHANGED notClassify

---------------------------------------------------------------------------
(* The friendly-name derivation applied to sample inputs *)

\* container names are concatenated from these: a plain name, 12 hex digits,
\* names of 10 and 11 characters (20 and 21 when doubled or paired), and a
\* short name of hex digits and a hyphen
ContainerNamePieces ==
    { <<"m","y","-","a","p","p">>,
      <<"a","1","b","2","c","3","d","4","e","5","f","6">>,
      <<"w","e","b","_","s","e","r","v","e","r">>,
      <<"w","e","b","_","s","e","r","v","e","r","1">>,
      <<"d","e","a","d","-","B","E","E","F">> }

MaxContainerNamePieces == 2

RECURSIVE ContainerNamesUpTo(_)
ContainerNamesUpTo(n) ==
    IF n = 0 THEN { <<>> }
    ELSE LET shorter == ContainerNamesUpTo(n - 1) IN
         shorter \cup { a \o b : a \in shorter, b \in ContainerNamePieces }

SampleContainerNames == ContainerNamesUpTo(MaxContainerNamePieces)

ImagePrefixes ==
    { <<>>, <<"l","i","b","r","a","r","y","/">>,
      <<"g","h","c","r",".","i","o","/","o","r","g","/">>,
      <<"r","e","g","i","s","t","r","y",":","5","0","0","0","/">> }

ImageNames ==
    { <<"r","e","d","i","s">>, <<"a","1","b","2","c","3">>,
      <<"p","o","s","t","g","r","e","s","-","w","i","t","h","-","a","-",
        "l","o","n","g","-","n","a","m","e">> }

ImageTags ==
    { <<>>, <<":","7","-","a","l","p","i","n","e">>,
      <<":","l","a","t","e","s","t">> }

SampleImages ==
    { pre \o name \o tag :
        pre \in ImagePrefixes, name \in ImageNames, tag \in ImageTags }

\* one call get_friendly_container_name(container_name, image)
FriendlyCall ==
    /\ fr_pc = "idle"
    /\ \E name \in SampleContainerNames : \E image \in SampleImages :
          /\ fr_name' = name
          /\ fr_image' = image
          /\ fr_result' = get_friendly_container_name(name, image)
    /\ fr_pc' = "done"
    /\ UNCHANGED notFriendly

---------------------------------------------------------------------------
(* The environment of a run: listener enumeration, process table,         *)
(* container runtime                                                      *)

\* output lines of the listener enumeration: process-id markers (one not a
\* pid), a command marker, address markers (IPv4 and IPv6 binds of port
\* 8080, another port, one without a port), an unknown tag, a blank line
LsofLines ==
    { <<"p","4","2">>, <<"p","4","3">>, <<"p","x">>,
      <<"c","n","o","d","e">>,
      <<"n","*",":","8","0","8","0">>,
      <<"n","[",":",":","1","]",":","8","0","8","0">>,
      <<"n","1","2","7",".","0",".","0",".","1",":","5","4","3","2">>,
      <<"n","*",":">>,
      <<"f","3">>,
      <<>> }

MaxLsofLines == 3

RECURSIVE SeqsUpTo(_, _)
SeqsUpTo(S, n) ==
    IF n = 0 THEN { <<>> }
    ELSE LET shorter == SeqsUpTo(S, n - 1) IN
         shorter \cup { Append(t, x) : t \in shorter, x \in S }

LsofTexts == SeqsUpTo(LsofLines, MaxLsofLines)

\* a dual-stack listener of pid 42 and listeners of pid 43 on ports that
\* containers publish or the service table knows
SampleLsofTexts ==
    { << <<"p","4","2">>, <<"c","d","o","c","k","e","r","-","p","r","o","x","y">>,
         <<"n","*",":","8","0","8","0">>,
         <<"n","[",":",":","1","]",":","8","0","8","0">>,
         <<"n","*",":","9","0","0","0">>,
         <<"p","4","3">>, <<"c","c","o","l","i","m","a">>,
         <<"n","1","2","7",".","0",".","0",".","1",":","5","4","3","2">> >>,
      << <<"p","4","3">>, <<"c","n","o","d","e">>,
         <<"n","*",":","8","0","8","0">>,
         <<"p","4","2">>,
         <<"n","*",":","2","3","7","5">>,
         <<"n","*",":","8","0","8","0">> >>,
      << <<"p","4","2">>,
         <<"n","1","2","7",".","0",".","0",".","1",":","5","4","3","2">>,
         <<"n","*",":","8","0","8","0">> >>,
      <<>> }

LsofOutcomes(texts) ==
    { [status |-> "spawn_error", lines |-> <<>>] }
        \cup [status : {"ok", "exit_nonzero"}, lines : texts]

ComDockerBackend ==
    <<"c","o","m",".","d","o","c","k","e","r",".","b","a","c","k","e","n","d">>
BinApp == <<"/","b","i","n","/","a","p","p">>

\* process tables: names that classify as Container, Dev and Database, a
\* pid libproc cannot resolve, and a container runtime that is not docker
ProcTables ==
    { (42 :> [name |-> Some(ComDockerBackend), path |-> Some(BinApp)])
        @@ (43 :> [name |-> Some(<<"n","o","d","e">>), path |-> None]),
      (43 :> [name |-> Some(<<"p","o","d","m","a","n">>), path |-> Some(BinApp)]),
      (42 :> [name |-> Some(<<"D","o","c","k","e","r">>), path |-> None])
        @@ (43 :> [name |-> Some(<<"p","o","s","t","g","r","e","s">>),
                   path |-> Some(BinApp)]) }

\* output lines of the container-runtime query
\* c1|web|nginx:1.25|0.0.0.0:8080->80/tcp, :::8080->80/tcp
DockerLineWeb ==
    <<"c","1","|","w","e","b","|","n","g","i","n","x",":","1",".","2",
      "5","|","0",".","0",".","0",".","0",":","8","0","8","0","-",">",
      "8","0","/","t","c","p",","," ",":",":",":","8","0","8","0","-",
      ">","8","0","/","t","c","p">>
\* c2|a1b2c3d4e5f6a1b2c3d4e5f6|redis:7-alpine|0.0.0.0:5432->5432/tcp
DockerLineRedis ==
    <<"c","2","|","a","1","b","2","c","3","d","4","e","5","f","6","a",
      "1","b","2","c","3","d","4","e","5","f","6","|","r","e","d","i",
      "s",":","7","-","a","l","p","i","n","e","|","0",".","0",".","0",
      ".","0",":","5","4","3","2","-",">","5","4","3","2","/","t","c",
      "p">>
\* c3|db|postgres|5432/tcp (a port exposed but not published)
DockerLineExposed ==
    <<"c","3","|","d","b","|","p","o","s","t","g","r","e","s","|","5",
      "4","3","2","/","t","c","p">>
\* c4|api|node|0.0.0.0:8080-8081->80-81/tcp (a published port range)
DockerLineRange ==
    <<"c","4","|","a","p","i","|","n","o","d","e","|","0",".","0",".",
      "0",".","0",":","8","0","8","0","-","8","0","8","1","-",">","8",
      "0","-","8","1","/","t","c","p">>
\* c5|other|mysql|127.0.0.1:8080->3306/tcp
DockerLineOther ==
    <<"c","5","|","o","t","h","e","r","|","m","y","s","q","l","|","1",
      "2","7",".","0",".","0",".","1",":","8","0","8","0","-",">","3",
      "3","0","6","/","t","c","p">>
\* bad|line (fewer than four fields)
DockerLineShort == <<"b","a","d","|","l","i","n","e">>

DockerLines ==
    { DockerLineWeb, DockerLineRedis, DockerLineExposed, DockerLineRange,
      DockerLineOther, DockerLineShort, <<>> }

MaxDockerLines == 2

DockerOutcomes(texts) ==
    { [status |-> "spawn_error", lines |-> <<>>] }
        \cup [status : {"ok", "exit_nonzero"}, lines : texts]

DockerTexts == SeqsUpTo(DockerLines, MaxDockerLines)

SampleDockerTexts == { <<DockerLineWeb, DockerLineRedis>> }

\* one call of discover_ports from main, the environment answering from
\* the given sets
Discover(lsofs, tables, dockers) ==
    /\ m_pc = "start"
    /\ \E l \in lsofs : \E p \in tables : \E d \in dockers :
         \E r \in { discover_ports(l, p, d) } :
         /\ m_lsof' = l
         /\ m_procs' = p
         /\ m_docker' = r.docker
         /\ m_raw' = r.raw
         /\ m_unique' = r.unique
         /\ m_enriched' = r.enriched
         /\ m_result' = [ok |-> r.ok, entries |-> r.entries]
         /\ m_entries' = unwrap_or_empty(r)
    /\ m_pc' = "dispatch"
    /\ UNCHANGED <<m_cmd, m_shown, kVars, notMain>>

DiscoverAnyListing ==
    Discover(LsofOutcomes(LsofTexts), ProcTables,
             DockerOutcomes(SampleDockerTexts))

DiscoverAnyContainers ==
    Discover(LsofOutcomes(SampleLsofTexts), ProcTables,
             DockerOutcomes(DockerTexts))

\* listings of markers in any order: process-id markers (one not a pid),
\* command-name markers, address markers with and without a port
MarkerLines ==
    { <<"p","4","2">>, <<"p","4","3">>, <<"p","x">>,
      <<"c","n","o","d","e">>, <<"c","n","p","m">>,
      <<"n","*",":","8","0","8","0">>, <<"n","*",":">> }

MaxMarkerLines == 4

\* process tables in which libproc names pid 42 only, or no pid
MarkerProcTables ==
    { (42 :> [name |-> Some(<<"r","e","d","i","s">>), path |-> Some(BinApp)]),
      <<>> }

DiscoverAnyMarkers ==
    Discover(LsofOutcomes(SeqsUpTo(MarkerLines, MaxMarkerLines)),
             MarkerProcTables, { [status |-> "spawn_error", lines |-> <<>>] })

---------------------------------------------------------------------------
(* main after discovery: the dispatch on the subcommand, lines 217-247,   *)
(* and cmd_kill with kill_pid, lines 198-207 and 284-329                  *)


\* the subcommands with the ports asked for
Commands ==
    [name : {"none", "all", "dev", "prod"}, port : {0}, force : {FALSE}]
        \cup [name : {"port", "free"}, port : {8080, 7000}, force : {FALSE}]
        \cup [name : {"kill"}, port : {8080, 7000}, force : BOOLEAN]

\* the pids of the sample listings
Pids == {42, 43}

\* the handlers that only print
DispatchPrint ==
    /\ m_pc = "dispatch"
    /\ \E c \in Commands :
         /\ c.name # "kill"
         /\ m_cmd' = c
         /\ m_shown' =
               CASE c.name = "none" -> filter_default(m_entries)
                 [] c.name = "all" -> m_entries
                 [] c.name = "dev" -> filter_dev(m_entries)
                 [] c.name = "prod" -> filter_prod(m_entries)
                 [] c.name \in {"port", "free"} ->
                       found_on_port(m_entries, c.port)
    /\ m_pc' = "done"
    /\ UNCHANGED <<m_lsof, m_procs, m_docker, m_raw, m_unique, m_enriched,
                   m_result, m_entries, kVars, notMain>>

\* line 311 with the test of the flag left out
dry_run_never(force) == FALSE

\* if !force { ...; return; }, lines 311-315
dry_run(force) == ~force

\* cmd_kill up to the loop over the targets; the processes that are alive
\* and those the user may signal are the environment's
DispatchKill ==
    /\ m_pc = "dispatch"
    /\ \E c \in Commands : \E live \in SUBSET Pids : \E allowed \in SUBSET Pids :
         LET found == found_on_port(m_entries, c.port)
             targets == target_pids_of(found)
         IN
         /\ c.name = "kill"
         /\ m_cmd' = c
         /\ m_shown' = found
         /\ IF found = <<>> \/ targets = <<>> \/ dry_run(c.force)
            THEN /\ m_pc' = "done"
                 /\ UNCHANGED kVars
            ELSE /\ m_pc' = "killing"
                 /\ k_targets' = targets
                 /\ alive' = live
                 /\ permitted' = allowed
                 /\ UNCHANGED <<k_pc, k_pid, k_calls, k_results, signals>>
    /\ UNCHANGED <<m_lsof, m_procs, m_docker, m_raw, m_unique, m_enriched,
                   m_result, m_entries, notMain>>

\* the loop of cmd_kill, lines 322-328: the next call of kill_pid, or the
\* end of the loop
KillLoop ==
    /\ m_pc = "killing"
    /\ k_pc = "idle"
    /\ IF k_targets = <<>>
       THEN /\ m_pc' = "done"
            /\ UNCHANGED kVars
       ELSE /\ k_pid' = Head(k_targets)[1]
            /\ k_targets' = Tail(k_targets)
            /\ k_calls' = Append(k_calls, Head(k_targets)[1])
            /\ k_pc' = "term"
            /\ UNCHANGED <<m_pc, k_results, signals, alive, permitted>>
    /\ UNCHANGED <<m_lsof, m_procs, m_docker, m_raw, m_unique, m_enriched,
                   m_result, m_entries, m_cmd, m_shown, notMain>>

\* kill(pid, Signal::SIGTERM)?, line 200
SendTerm ==
    /\ k_pc = "term"
    /\ IF kill_ok(k_pid, alive, permitted)
       THEN /\ signals' = Append(signals, <<k_pid, "SIGTERM">>)
            /\ k_pc' = "sleep"
            /\ UNCHANGED k_results
       ELSE /\ k_results' = Append(k_results, <<k_pid, "Err">>)
            /\ k_pc' = "idle"
            /\ UNCHANGED signals
    /\ UNCHANGED <<notMain, mainVars, k_pid, k_targets, k_calls, alive, permitted>>

\* thread::sleep(Duration::from_millis(300)), line 201
GracePeriod ==
    /\ k_pc = "sleep"
    /\ k_pc' = "check"
    /\ UNCHANGED <<notMain, mainVars, k_pid, k_targets, k_calls, k_results, signals,
                   alive, permitted>>

\* line 203 without the liveness check
CheckAliveSkipped ==
    /\ k_pc = "check"
    /\ k_pc' = "kill"
    /\ UNCHANGED <<notMain, mainVars, k_pid, k_targets, k_calls, k_results,
                   signals, alive, permitted>>

\* if kill(pid, None).is_ok(), line 203
CheckAlive ==
    /\ k_pc = "check"
    /\ IF kill_ok(k_pid, alive, permitted)
       THEN /\ k_pc' = "kill"
            /\ UNCHANGED k_results
       ELSE /\ k_results' = Append(k_results, <<k_pid, "Ok">>)
            /\ k_pc' = "idle"
    /\ UNCHANGED <<notMain, mainVars, k_pid, k_targets, k_calls, signals, alive,
                   permitted>>

\* kill(pid, Signal::SIGKILL)?, line 204; a delivered SIGKILL ends the
\* process
SendKill ==
    /\ k_pc = "kill"
    /\ IF kill_ok(k_pid, alive, permitted)
       THEN /\ signals' = Append(signals, <<k_pid, "SIGKILL">>)
            /\ alive' = alive \ {k_pid}
            /\ k_results' = Append(k_results, <<k_pid, "Ok">>)
       ELSE /\ k_results' = Append(k_results, <<k_pid, "Err">>)
            /\ UNCHANGED <<signals, alive>>
    /\ k_pc' = "idle"
    /\ UNCHANGED <<notMain, mainVars, k_pid, k_targets, k_calls, permitted>>

\* a process exits, on its own or on the SIGTERM it received
ProcessExits ==
    /\ m_pc = "killing"
    /\ \E pid \in alive : alive' = alive \ {pid}
    /\ UNCHANGED <<notMain, mainVars, k_pc, k_pid, k_targets, k_calls, k_results,
                   signals, permitted>>

DiscoverSampleListing ==
    Discover(LsofOutcomes(SampleLsofTexts), ProcTables,
             DockerOutcomes(SampleDockerTexts))

\* cmd_kill is a function of any entry slice: entries that share a port and
\* a pid, entries without a pid or without a process name
KillEntries ==
    { [port |-> 8080, pid |-> Some(42), process |-> Some(<<"n","o","d","e">>),
       exec_path |-> None, kind |-> "Dev"],
      [port |-> 8080, pid |-> Some(42), process |-> Some(<<"n","o","d","e">>),
       exec_path |-> Some(BinApp), kind |-> "Dev"],
      [port |-> 8080, pid |-> Some(43), process |-> Some(<<"n","p","m">>),
       exec_path |-> None, kind |-> "Dev"],
      [port |-> 7000, pid |-> Some(43), process |-> None,
       exec_path |-> None, kind |-> "System"],
      [port |-> 7000, pid |-> None, process |-> Some(<<"n","p","m">>),
       exec_path |-> None, kind |-> "System"] }

MaxKillEntries == 3

\* main hands cmd_kill a slice of entries
EntriesGiven ==
    /\ m_pc = "start"
    /\ m_entries' \in SeqsUpTo(KillEntries, MaxKillEntries)
    /\ m_pc' = "dispatch"
    /\ UNCHANGED <<m_lsof, m_procs, m_docker, m_raw, m_unique, m_enriched,
                   m_result, m_cmd, m_shown, kVars, notMain>>

---------------------------------------------------------------------------
(* get_parent_chain: src/src/main.rs 576-604, one loop iteration a step.  *)
(* get_parent_pid and get_process_name_libproc answer from the process    *)
(* table as it is when they are asked; the walk asks about each pid at    *)
(* most once, so the answers of one walk form one parent relation.        *)

MaxHops == 10

\* the for loop has run its MaxHops iterations, line 582
hops_exhausted_never(iter) == FALSE

hops_exhausted(iter) == iter >= MaxHops

\* line 589, testing pid 0 only
is_root_pid_zero_only(parent_pid) == parent_pid = 0

\* line 589
is_root_pid(parent_pid) == parent_pid = 0 \/ parent_pid = 1

\* the locals of a call, lines 577-579, with the lookups made so far
chain_start(pid) ==
    [current_pid |-> pid, chain |-> <<>>, seen |-> {}, iter |-> 0,
     lookups |-> 0, done |-> FALSE]

\* one iteration of the loop, lines 582-601, or its end; parent is what
\* get_parent_pid(current_pid) answers and name what
\* get_process_name_libproc(parent_pid) answers
chain_step(st, parent, name) ==
    IF hops_exhausted(st.iter) \/ st.current_pid \in st.seen
    THEN [st EXCEPT !.done = TRUE]
    ELSE LET asked == [st EXCEPT !.seen = @ \cup {st.current_pid},
                                 !.iter = @ + 1,
                                 !.lookups = @ + 1]
         IN IF IsSome(parent) /\ ~is_root_pid(Unwrap(parent)) /\ IsSome(name)
            THEN [asked EXCEPT
                    !.chain = <<<<Unwrap(parent), Unwrap(name)>>>> \o @,
                    !.current_pid = Unwrap(parent)]
            ELSE [asked EXCEPT !.done = TRUE]

\* get_parent_pid over a table ppids of the answers of "ps -o ppid="
get_parent_pid(ppids, pid) ==
    IF pid \in DOMAIN ppids THEN ppids[pid] ELSE None

\* the whole walk over a parent table and a process table
RECURSIVE get_parent_chain_from(_, _, _)
get_parent_chain_from(ppids, procs, st) ==
    IF st.done THEN st.chain
    ELSE LET parent == get_parent_pid(ppids, st.current_pid)
             name == IF IsSome(parent)
                     THEN get_process_name_libproc(procs, Unwrap(parent))
                     ELSE None
         IN get_parent_chain_from(ppids, procs, chain_step(st, parent, name))

get_parent_chain(ppids, procs, pid) ==
    get_parent_chain_from(ppids, procs, chain_start(pid))

MaxChainPid == 13
ChainPids == 0..MaxChainPid

\* what get_parent_pid may answer for pid p: no answer, the roots 0 and 1,
\* p itself, the inspected pid (a cycle), pid 2, and the next two pids
ParentAnswers(p, inspected) ==
    {None} \cup { Some(q) : q \in {0, 1, 2, p, inspected, p + 1, p + 2}
                                     \cap ChainPids }

\* what get_process_name_libproc may answer
NameAnswers == { None, Some(<<"s","h">>) }

\* no lookup made yet
NotAsked == [parent |-> None, name |-> None]

ChainCall ==
    /\ ch_pc = "idle"
    /\ \E pid \in {0, 1, 2, 3} :
          /\ ch_pid' = pid
          /\ ch_st' = chain_start(pid)
    /\ ch_answer' = NotAsked
    /\ ch_pc' = "loop"
    /\ UNCHANGED notChain

\* ch_answer keeps what the lookups of the iteration answered, the name
\* lookup being made for a parent that is not a root only
ChainStep ==
    /\ ch_pc = "loop"
    /\ \E parent \in ParentAnswers(ch_st.current_pid, ch_pid) :
       \E name \in NameAnswers :
          /\ ch_st' = chain_step(ch_st, parent, name)
          /\ ch_answer' =
                IF ch_st'.lookups = ch_st.lookups THEN ch_answer
                ELSE [parent |-> parent,
                      name |-> IF IsSome(parent) /\ ~is_root_pid(Unwrap(parent))
                               THEN name ELSE None]
    /\ ch_pc' = IF ch_st'.done THEN "done" ELSE "loop"
    /\ UNCHANGED <<ch_pid, notChain>>

---------------------------------------------------------------------------
(* get_detailed_port_info applied to sample process states *)

SpawnError == [status |-> "spawn_error", lines |-> <<>>]
ExitNonzero == [status |-> "exit_nonzero", lines |-> <<>>]

\* what the five commands of get_combined_ps_info may give: all answer,
\* each exits non-zero or cannot be started, only the first answers
PsObservations ==
    { [main |-> [status |-> "ok",
               lines |-> << <<"n","o","d","e"," ","s","e","r","v","e","r",
                              ".","j","s"," ","a","l","i","c","e"," ","5",
                              "0","1"," ","1","0","0","0"," ","2","0","0",
                              "0"," ","1",".","5"," ","0","1",":","0",
                              "2">> >>],
       cmd |-> [status |-> "ok",
              lines |-> << <<"n","o","d","e"," ","s","e","r","v","e","r",
                             ".","j","s"," ","-","-","p","o","r","t"," ",
                             "8","0","8","0">> >>],
       lstart |-> [status |-> "ok",
                 lines |-> << <<"M","o","n"," ","N","o","v"," "," ","2",
                                " ","1","0",":","0","0",":","0","0"," ",
                                "2","0","2","6">> >>],
       threads |-> [status |-> "ok",
                  lines |-> << <<"U","S","E","R"," ","P","I","D">>,
                            <<"a","l","i","c","e"," ","4","2">>,
                            <<"a","l","i","c","e"," ","4","2">>,
                            <<"a","l","i","c","e"," ","4","2">> >>],
       eww |-> [status |-> "ok",
              lines |-> << <<"P","I","D"," ","T","T"," ","S","T","A","T">>,
                        <<"4","2"," ","s","0"," ","S"," ","n","o","d",
                             "e"," ","P","O","R","T","=","8","0","8","0",
                             " ","F","O","O","=","b","a","r"," ","N","O",
                             "D","E","_","E","N","V","=","d","e","v">> >>]],
      [main |-> ExitNonzero, cmd |-> SpawnError, lstart |-> ExitNonzero,
       threads |-> SpawnError, eww |-> ExitNonzero],
      [main |-> [status |-> "ok",
               lines |-> << <<"n","o","d","e"," ","a","l","i","c","e"," ",
                              "5","0","1"," ","1","0","0","0"," ","2","0",
                              "0","0"," ","0",".","0"," ","0","5">> >>],
       cmd |-> ExitNonzero, lstart |-> ExitNonzero,
       threads |-> ExitNonzero, eww |-> ExitNonzero] }

LsofObservations ==
    { [files |-> [status |-> "ok",
                lines |-> << <<"p","4","2">>,
                          <<"n","/","h","o","m","e","/","a","p","p">>,
                          <<"n","*",":","8","0","8","0">>,
                          <<"n","*",":","9","0","9","0">>,
                          <<"n","1","2","7",".","0",".","0",".","1",
                               ":","8","0">>,
                          <<"n","*",":","3","0","0","0">>,
                          <<"n","*",":","9","0","9","0">> >>],
       cwd |-> [status |-> "ok",
              lines |-> << <<"p","4","2">>,
                        <<"f","c","w","d">>,
                        <<"n","/","h","o","m","e","/","a","p","p">> >>]],
      [files |-> SpawnError, cwd |-> ExitNonzero] }

\* answers of "ps -o ppid=": 42 under 7 under 5 under 1; no answer for 42;
\* no answer for 7
ParentObservations ==
    { [ppids |-> (42 :> Some(7)) @@ (7 :> Some(5)) @@ (5 :> Some(1))],
      [ppids |-> (42 :> None)],
      [ppids |-> (42 :> Some(7)) @@ (7 :> None)] }

ChildObservations ==
    { [pgrep |-> [status |-> "ok",
                lines |-> << <<"7","7">>,
                          <<" ","5"," ">>,
                          <<"x">>,
                          <<"9","9">> >>]],
      [pgrep |-> ExitNonzero] }

ConnectionObservations ==
    { [established |-> [status |-> "ok",
                        lines |-> << <<"4","2">>, <<"4","2">> >>]],
      [established |-> SpawnError] }

\* output lines of the six-column container listing of get_docker_info
\* c0|old|busybox|Exited
DetailLineShort ==
    <<"c","0","|","o","l","d","|","b","u","s","y","b","o","x","|","E","x",
      "i","t","e","d">>

\* c2|cache|redis:7|Up 1 hour||0.0.0.0:6379->6379/tcp
DetailLineCache ==
    <<"c","2","|","c","a","c","h","e","|","r","e","d","i","s",":","7","|",
      "U","p"," ","1"," ","h","o","u","r","|","|","0",".","0",".","0",".",
      "0",":","6","3","7","9","-",">","6","3","7","9","/","t","c","p">>

\* c1|web|nginx:1.25|Up 2 hours|/data, web_logs|0.0.0.0:8080->80/tcp
DetailLineWeb ==
    <<"c","1","|","w","e","b","|","n","g","i","n","x",":","1",".","2","5",
      "|","U","p"," ","2"," ","h","o","u","r","s","|","/","d","a","t","a",
      ","," ","w","e","b","_","l","o","g","s","|","0",".","0",".","0",".",
      "0",":","8","0","8","0","-",">","8","0","/","t","c","p">>

ContainerObservations ==
    { [docker |-> [status |-> "ok",
                   lines |-> <<DetailLineShort, DetailLineCache,
                               DetailLineWeb>>]],
      [docker |-> ExitNonzero] }

Observations(t) ==
    CASE t = "ps" -> PsObservations
      [] t = "lsof" -> LsofObservations
      [] t = "parent" -> ParentObservations
      [] t = "children" -> ChildObservations
      [] t = "connections" -> ConnectionObservations
      [] t = "docker" -> ContainerObservations

\* the process table libproc reads during a call: the inspected pid 42, its
\* ancestors 7 and 5 and its child 77; and one without the inspected pid
DetailProcTables ==
    { (42 :> [name |-> Some(ComDockerBackend), path |-> Some(BinApp)])
        @@ (7 :> [name |-> Some(<<"z","s","h">>), path |-> None])
        @@ (5 :> [name |-> Some(<<"l","o","g","i","n">>), path |-> None])
        @@ (77 :> [name |-> Some(<<"w","o","r","k","e","r">>), path |-> None]),
      (7 :> [name |-> Some(<<"z","s","h">>), path |-> None]) }

DetailArgs ==
    { [port |-> 8080, pid |-> 42, kind |-> "Container"],
      [port |-> 80, pid |-> 42, kind |-> "Dev"] }

\* the closure of each spawned thread, lines 346-373
run_task(t, obs, args, process_name, procs) ==
    CASE t = "ps" -> get_combined_ps_info(obs)
      [] t = "lsof" -> get_combined_lsof_info(obs, args.port)
      [] t = "parent" -> get_parent_chain(obs.ppids, procs, args.pid)
      [] t = "children" -> get_child_processes(obs.pgrep, procs)
      [] t = "connections" -> count_active_connections(obs.established)
      [] t = "docker" -> get_docker_info(args.port, process_name, obs.docker)

\* lines 335-373: the two libproc reads and the six spawns
DetailCall ==
    /\ dt_pc = "idle"
    /\ \E args \in DetailArgs : \E procs \in DetailProcTables :
          /\ dt_args' = args
          /\ dt_procs' = procs
          /\ dt_process_name' =
                unwrap_or(get_process_name_libproc(procs, args.pid), Unknown)
          /\ dt_exec_path' = get_exec_path_libproc(procs, args.pid)
    /\ dt_task' = [t \in Tasks |-> Running]
    /\ dt_obs' = [t \in Tasks |-> <<>>]
    /\ dt_joined' = 0
    /\ dt_pc' = "joining"
    /\ UNCHANGED <<dt_ret, notDetail>>

\* a task runs its sub-query to the end
TaskFinish ==
    /\ dt_pc = "joining"
    /\ \E t \in Tasks :
          /\ dt_task[t].status = "running"
          /\ \E obs \in Observations(t) :
                /\ dt_obs' = [dt_obs EXCEPT ![t] = <<obs>>]
                /\ \E v \in { run_task(t, obs, dt_args, dt_process_name,
                                       dt_procs) } :
                      dt_task' = [dt_task EXCEPT ![t] = Finished(v)]
    /\ UNCHANGED <<dt_pc, dt_args, dt_procs, dt_process_name, dt_exec_path,
                   dt_joined, dt_ret, notDetail>>

\* a task panics
TaskPanic ==
    /\ dt_pc = "joining"
    /\ \E t \in Tasks :
          /\ dt_task[t].status = "running"
          /\ dt_task' = [dt_task EXCEPT ![t] = Panicked]
    /\ UNCHANGED <<dt_pc, dt_args, dt_procs, dt_process_name, dt_exec_path,
                   dt_obs, dt_joined, dt_ret, notDetail>>

\* JoinHandle::join returns once the thread is no longer running; this
\* one returns at once
join_returns_at_once(task) == TRUE

join_returns(task) == task.status # "running"

\* one join of lines 376-381 returns
Join ==
    /\ dt_pc = "joining"
    /\ dt_joined < Len(JoinOrder)
    /\ join_returns(dt_task[JoinOrder[dt_joined + 1]])
    /\ dt_joined' = dt_joined + 1
    /\ UNCHANGED <<dt_pc, dt_args, dt_procs, dt_process_name, dt_exec_path,
                   dt_task, dt_obs, dt_ret, notDetail>>

\* lines 383-407
DetailReturn ==
    /\ dt_pc = "joining"
    /\ dt_joined = Len(JoinOrder)
    /\ dt_ret' = <<join_all(dt_args.port, dt_args.pid, dt_args.kind,
                            dt_process_name, dt_exec_path, dt_task)>>
    /\ dt_pc' = "returned"
    /\ UNCHANGED <<dt_args, dt_procs, dt_process_name, dt_exec_path,
                   dt_task, dt_obs, dt_joined, notDetail>>

---------------------------------------------------------------------------
(* get_docker_info applied to sample container listings *)

\* c3|db|postgres:16|Up 3 days|pgdata|5432/tcp
DetailLineExposed ==
    <<"c","3","|","d","b","|","p","o","s","t","g","r","e","s",":","1","6",
      "|","U","p"," ","3"," ","d","a","y","s","|","p","g","d","a","t","a",
      "|","5","4","3","2","/","t","c","p">>

\* c4|proxy|traefik:v3|Up 5 minutes||0.0.0.0:80->8080/tcp, :::80->8080/tcp
DetailLineProxy ==
    <<"c","4","|","p","r","o","x","y","|","t","r","a","e","f","i","k",":",
      "v","3","|","U","p"," ","5"," ","m","i","n","u","t","e","s","|","|",
      "0",".","0",".","0",".","0",":","8","0","-",">","8","0","8","0","/",
      "t","c","p",","," ",":",":",":","8","0","-",">","8","0","8","0","/",
      "t","c","p">>

DockerInfoLines ==
    { DetailLineShort, DetailLineCache, DetailLineWeb, DetailLineExposed,
      DetailLineProxy }

MaxDockerInfoLines == 2

DockerInfoPorts == {80, 8080, 5432, 443}

DockerInfoNames ==
    { ComDockerBackend, <<"D","o","c","k","e","r">>, <<"n","g","i","n","x">> }

\* one call get_docker_info(port, process_name)
DockerInfoCall ==
    /\ di_pc = "idle"
    /\ \E port \in DockerInfoPorts : \E name \in DockerInfoNames :
       \E docker \in DockerOutcomes(SeqsUpTo(DockerInfoLines,
                                             MaxDockerInfoLines)) :
          /\ di_port' = port
          /\ di_name' = name
          /\ di_docker' = docker
          /\ di_result' = get_docker_info(port, name, docker)
    /\ di_pc' = "done"
    /\ UNCHANGED notDockerInfo

---------------------------------------------------------------------------
(* Specifications *)

\* nothing has been called yet
Init ==
    /\ cl_pc = "idle"
    /\ cl_port = 0
    /\ cl_process = None
    /\ cl_kind = "Unknown"
    /\ fr_pc = "idle"
    /\ fr_name = <<>>
    /\ fr_image = <<>>
    /\ fr_result = <<>>
    /\ m_pc = "start"
    /\ m_lsof = NotRun
    /\ m_procs = <<>>
    /\ m_docker = NotRun
    /\ m_raw = <<>>
    /\ m_unique = <<>>
    /\ m_enriched = <<>>
    /\ m_result = [ok |-> FALSE, entries |-> <<>>]
    /\ m_entries = <<>>
    /\ m_cmd = [name |-> "none", port |-> 0, force |-> FALSE]
    /\ m_shown = <<>>
    /\ k_pc = "idle"
    /\ k_pid = 0
    /\ k_targets = <<>>
    /\ k_calls = <<>>
    /\ k_results = <<>>
    /\ signals = <<>>
    /\ alive = {}
    /\ permitted = {}
    /\ ch_pc = "idle"
    /\ ch_pid = 0
    /\ ch_st = chain_start(0)
    /\ ch_answer = NotAsked
    /\ dt_pc = "idle"
    /\ dt_args = [port |-> 0, pid |-> 0, kind |-> "Unknown"]
    /\ dt_procs = <<>>
    /\ dt_process_name = <<>>
    /\ dt_exec_path = None
    /\ dt_task = [t \in {} |-> Running]
    /\ dt_obs = [t \in {} |-> <<>>]
    /\ dt_joined = 0
    /\ dt_ret = None
    /\ di_pc = "idle"
    /\ di_port = 0
    /\ di_name = <<>>
    /\ di_docker = NotRun
    /\ di_result = None

SpecClassify == Init /\ [][ClassifyCall]_vars

SpecFriendly == Init /\ [][FriendlyCall]_vars

SpecDiscover == Init /\ [][DiscoverAnyListing]_vars

SpecEnrich == Init /\ [][DiscoverAnyContainers]_vars

SpecParse == Init /\ [][DiscoverAnyMarkers]_vars

NextMain ==
    \/ DiscoverSampleListing
    \/ DispatchPrint
    \/ DispatchKill
    \/ KillLoop
    \/ SendTerm
    \/ GracePeriod
    \/ CheckAlive
    \/ SendKill
    \/ ProcessExits

SpecMain == Init /\ [][NextMain]_vars

NextKill ==
    \/ EntriesGiven
    \/ DispatchKill
    \/ KillLoop
    \/ SendTerm
    \/ GracePeriod
    \/ CheckAlive
    \/ SendKill
    \/ ProcessExits

SpecKill == Init /\ [][NextKill]_vars

NextChain == ChainCall \/ ChainStep

SpecChain == Init /\ [][NextChain]_vars

\* the thread of get_parent_chain is scheduled and its lookups return
SpecChainLive == Init /\ [][NextChain]_vars /\ WF_vars(ChainStep)

NextDetail == DetailCall \/ TaskFinish \/ TaskPanic \/ Join \/ DetailReturn

SpecDetail == Init /\ [][NextDetail]_vars

SpecDockerInfo == Init /\ [][DockerInfoCall]_vars

\* the thread of get_detailed_port_info is scheduled: a join that can
\* return does, and the record is then built; nothing is assumed of the
\* tasks
SpecDetailLive ==
    /\ Init
    /\ [][NextDetail]_vars
    /\ WF_vars(Join)
    /\ WF_vars(DetailReturn)

---------------------------------------------------------------------------
(* Claims *)

KindOrder == <<"System", "Dev", "Database", "Container">>

KeywordsOf(kind) ==
    CASE kind = "System" -> SystemKeywords
      [] kind = "Dev" -> DevKeywords
      [] kind = "Database" -> DatabaseKeywords
      [] kind = "Container" -> ContainerKeywords

\* the positions in KindOrder of the keyword sets the lower-cased name matches
MatchingSets(name) ==
    { i \in 1..4 : ContainsAny(to_lowercase(name), KeywordsOf(KindOrder[i])) }

\* C3: when the lower-cased process name contains a keyword of at least one
\* of the four sets, classify returns the kind of the first matching set in
\* the order System, Dev, Database, Container, whatever the port.
C3_FirstMatchingSetWins ==
    (cl_pc = "done" /\ IsSome(cl_process)
        /\ MatchingSets(Unwrap(cl_process)) # {})
    => cl_kind = KindOrder[MinOf(MatchingSets(Unwrap(cl_process)))]

\* a name matching a System and a Dev keyword on a database port is System
C3_Witness ==
    /\ cl_pc = "done"
    /\ IsSome(cl_process)
    /\ {1, 2} \subseteq MatchingSets(Unwrap(cl_process))
    /\ cl_port \in DatabasePorts
    /\ cl_kind = "System"

\* the port table as the specification lists it
PortTableKind(port) ==
    CASE port \in {3000, 5173, 8080, 8000, 4200, 3001, 5000, 9000} -> "Dev"
      [] port \in {5432, 3306, 6379, 27017, 1433, 5984} -> "Database"
      [] port \in {2375, 2376} -> "Container"
      [] port = 631 -> "System"
      [] OTHER -> "Unknown"

\* C4: when the process name is absent or matches no keyword set, classify
\* returns what the port table gives for the port, the same as for an absent
\* name, and Unknown for a port outside the table.
C4_FallsBackToPortTable ==
    (cl_pc = "done"
        /\ (IsSome(cl_process) => MatchingSets(Unwrap(cl_process)) = {}))
    => /\ cl_kind = PortTableKind(cl_port)
       /\ cl_kind = classify(cl_port, None)

\* an unmatched name on a database port is classified by the port
C4_Witness ==
    /\ cl_pc = "done"
    /\ IsSome(cl_process)
    /\ Len(Unwrap(cl_process)) > 0
    /\ MatchingSets(Unwrap(cl_process)) = {}
    /\ cl_port \in DatabasePorts
    /\ cl_kind = "Database"

---------------------------------------------------------------------------
\* "generic" as the specification words it: longer than 20 characters, or
\* made only of hex digits and hyphens
LooksGenerated(name) ==
    \/ Len(name) > 20
    \/ \A i \in 1..Len(name) :
          name[i] \in {"0","1","2","3","4","5","6","7","8","9",
                       "a","b","c","d","e","f","A","B","C","D","E","F","-"}

\* C8: get_friendly_container_name returns the image base name followed by
\* " (container)" exactly when the container name is generic and the image
\* base name is not; in every other case it returns the container name
\* followed by " (container)".
C8_FriendlyNameChoice ==
    fr_pc = "done" =>
        LET base == image_base(fr_image)
            suffix == <<" ","(","c","o","n","t","a","i","n","e","r",")">>
        IN IF LooksGenerated(fr_name) /\ ~LooksGenerated(base)
           THEN fr_result = base \o suffix
           ELSE fr_result = fr_name \o suffix

\* a container name of exactly 20 characters that are not all hex digits is
\* kept, although the image base name is not generic
C8_Witness ==
    /\ fr_pc = "done"
    /\ Len(fr_name) = 20
    /\ ~LooksGenerated(fr_name)
    /\ ~LooksGenerated(image_base(fr_image))
    /\ image_base(fr_image) # fr_name
    /\ fr_result = fr_name \o <<" ","(","c","o","n","t","a","i","n","e","r",")">>

---------------------------------------------------------------------------
Discovered == m_pc # "start" /\ m_result.ok

\* the entries of a list with the given port and pid
EntriesFor(list, port, pid) ==
    { i \in 1..Len(list) : list[i].port = port /\ list[i].pid = Some(pid) }

\* C1: the list discover_ports returns holds no two entries with the same
\* (port, pid) pair, and exactly one entry for every pair the listing
\* reported, however often it was reported.
C1_UniquePerPortAndPid ==
    Discovered =>
        /\ \A i, j \in 1..Len(m_result.entries) :
              (/\ m_result.entries[i].port = m_result.entries[j].port
               /\ m_result.entries[i].pid = m_result.entries[j].pid) => i = j
        /\ \A k \in 1..Len(m_raw) :
              Cardinality(EntriesFor(m_result.entries, m_raw[k].port,
                                     Unwrap(m_raw[k].pid))) = 1

\* pid 42 reported on port 8080 by an IPv4 and an IPv6 bind, one entry kept
C1_Witness ==
    /\ Discovered
    /\ <<"n","*",":","8","0","8","0">> \in { m_lsof.lines[i] : i \in 1..Len(m_lsof.lines) }
    /\ <<"n","[",":",":","1","]",":","8","0","8","0">>
           \in { m_lsof.lines[i] : i \in 1..Len(m_lsof.lines) }
    /\ Cardinality(EntriesFor(m_raw, 8080, 42)) = 2
    /\ Cardinality(EntriesFor(m_result.entries, 8080, 42)) = 1

MentionsDocker(process) ==
    /\ IsSome(process)
    /\ contains(to_lowercase(Unwrap(process)), <<"d","o","c","k","e","r">>)

\* C5: enrich_docker_containers keeps the number and order of the entries
\* and every port, pid, exec_path and kind; it changes a process name only
\* of an entry of kind Container whose process name mentions the container
\* runtime, whatever the container runtime returns.
C5_EnrichFrame ==
    Discovered =>
        /\ Len(m_enriched) = Len(m_unique)
        /\ \A i \in 1..Len(m_unique) :
              /\ m_enriched[i].port = m_unique[i].port
              /\ m_enriched[i].pid = m_unique[i].pid
              /\ m_enriched[i].exec_path = m_unique[i].exec_path
              /\ m_enriched[i].kind = m_unique[i].kind
              /\ m_enriched[i].process # m_unique[i].process
                    => /\ m_unique[i].kind = "Container"
                       /\ MentionsDocker(m_unique[i].process)

\* the lines of the container-runtime output that publish the host port
PublishingLines(lines, port) ==
    { k \in 1..Len(lines) :
        /\ Len(splitn(4, lines[k], "|")) = 4
        /\ \E pm \in { split(splitn(4, lines[k], "|")[4], ",")[j] :
                         j \in 1..Len(split(splitn(4, lines[k], "|")[4], ",")) } :
              mapping_host_port(pm) = Some(port) }

\* a name is rewritten while an entry of another kind on a published port
\* keeps its name
C5_Witness ==
    /\ Discovered
    /\ m_docker.status = "ok"
    /\ \E i, j \in 1..Len(m_unique) :
          /\ m_enriched[i].process # m_unique[i].process
          /\ m_unique[j].kind = "Dev"
          /\ PublishingLines(m_docker.lines, m_unique[j].port) # {}
          /\ m_enriched[j].process = m_unique[j].process

\* C6: when the container-runtime query cannot be run or exits non-zero,
\* enrich_docker_containers returns and leaves every process name as it was.
C6_QueryFailureKeepsNames ==
    (Discovered /\ m_docker.status \in {"spawn_error", "exit_nonzero"})
    => /\ Len(m_enriched) = Len(m_unique)
       /\ \A i \in 1..Len(m_unique) :
             m_enriched[i].process = m_unique[i].process

\* the query exits non-zero with output, and a docker entry of kind
\* Container listens on a port of the static service table
C6_Witness ==
    /\ Discovered
    /\ m_docker.status = "exit_nonzero"
    /\ m_docker.lines # <<>>
    /\ \E i \in 1..Len(m_unique) :
          /\ m_unique[i].kind = "Container"
          /\ MentionsDocker(m_unique[i].process)
          /\ m_unique[i].port \in {5432, 3306, 6379, 27017, 9000}
          /\ m_enriched[i].process = m_unique[i].process

FriendlyOfLine(line) ==
    get_friendly_container_name(splitn(4, line, "|")[2], splitn(4, line, "|")[3])

\* C7 as claimed: after a successful query every entry of kind Container
\* whose port is the host port of a published-port mapping of a running
\* container carries the friendly name of such a container.
C7_EveryContainerEntryRenamed ==
    (Discovered /\ m_docker.status = "ok") =>
        \A i \in 1..Len(m_unique) :
            (/\ m_unique[i].kind = "Container"
             /\ PublishingLines(m_docker.lines, m_unique[i].port) # {})
            => \E k \in PublishingLines(m_docker.lines, m_unique[i].port) :
                  m_enriched[i].process = Some(FriendlyOfLine(m_docker.lines[k]))

\* C7 amended: after a successful query every entry of kind Container whose
\* process name, lower-cased, contains "docker" and whose port is the host
\* port of a mapping <host-addr>:<host-port>-><...> of a listed container
\* carries the friendly name derived from the name and image of the last
\* listed container with such a mapping.
C7_DockerEntryRenamed ==
    (Discovered /\ m_docker.status = "ok") =>
        \A i \in 1..Len(m_unique) :
            (/\ m_unique[i].kind = "Container"
             /\ MentionsDocker(m_unique[i].process)
             /\ PublishingLines(m_docker.lines, m_unique[i].port) # {})
            => m_enriched[i].process =
                  Some(FriendlyOfLine(
                      m_docker.lines[MaxOf(PublishingLines(m_docker.lines,
                                                           m_unique[i].port))]))

\* a docker entry on a port that two listed containers publish
C7_Witness ==
    /\ Discovered
    /\ m_docker.status = "ok"
    /\ \E i \in 1..Len(m_unique) :
          /\ m_unique[i].kind = "Container"
          /\ MentionsDocker(m_unique[i].process)
          /\ Cardinality(PublishingLines(m_docker.lines, m_unique[i].port)) = 2
          /\ m_enriched[i].process # m_unique[i].process

---------------------------------------------------------------------------
\* C2: when the listener enumeration cannot be invoked or exits non-zero,
\* discover_ports returns an error with no entries and without querying the
\* container runtime, and main goes on to the dispatch with an empty entry
\* list: the handler lists nothing, kill_pid is never called and no signal
\* is sent.
C2_DiscoveryErrorIsEmptyList ==
    (m_pc # "start" /\ m_lsof.status # "ok")
    => /\ ~m_result.ok
       /\ m_result.entries = <<>>
       /\ m_docker = NotRun
       /\ m_entries = <<>>
       /\ m_pc \in {"dispatch", "done"}
       /\ m_shown = <<>>
       /\ k_calls = <<>>
       /\ signals = <<>>

\* the enumeration lists a listener on port 8080 but exits non-zero, and
\* the forced kill of port 8080 has returned
C2_Witness ==
    /\ m_lsof.status = "exit_nonzero"
    /\ \E i \in 1..Len(m_lsof.lines) :
          m_lsof.lines[i] = <<"n","*",":","8","0","8","0">>
    /\ m_pc = "done"
    /\ m_cmd = [name |-> "kill", port |-> 8080, force |-> TRUE]
    /\ signals = <<>>

---------------------------------------------------------------------------
\* C9: the list get_parent_chain builds has at most 10 entries and holds
\* neither pid 0 nor pid 1, whatever the parent relation.
C9_ChainBoundedAndRootless ==
    /\ Len(ch_st.chain) <= 10
    /\ \A i \in 1..Len(ch_st.chain) : ch_st.chain[i][1] \notin {0, 1}

\* a walk of ten parents that the hop limit ended
C9_Witness ==
    /\ ch_pc = "done"
    /\ Len(ch_st.chain) = 10
    /\ ch_st.current_pid \notin ch_st.seen

---------------------------------------------------------------------------
\* what the commands of task t gave
ObservedBy(t) == dt_obs[t][1]

\* task t ran to the end and every command of its sub-query succeeded
QuerySucceeded(t) ==
    /\ dt_task[t].status = "finished"
    /\ CASE t = "ps" ->
              \A c \in {"main", "cmd", "lstart", "threads", "eww"} :
                  succeeded(ObservedBy(t)[c])
         [] t = "lsof" ->
              succeeded(ObservedBy(t).files) /\ succeeded(ObservedBy(t).cwd)
         [] t = "parent" ->
              \A p \in DOMAIN ObservedBy(t).ppids :
                  IsSome(ObservedBy(t).ppids[p])
         [] t = "children" -> succeeded(ObservedBy(t).pgrep)
         [] t = "connections" -> succeeded(ObservedBy(t).established)
         [] t = "docker" -> succeeded(ObservedBy(t).docker)

\* the ancestor-chain task panicked, or its query got no parent of the
\* inspected pid
AncestorQueryFailed ==
    \/ dt_task["parent"].status = "panicked"
    \/ /\ dt_task["parent"].status = "finished"
       /\ ~IsSome(get_parent_pid(ObservedBy("parent").ppids, dt_args.pid))

ResultOf(t) == dt_task[t].value[1]

\* C10: whichever sub-queries fail or panic, get_detailed_port_info returns
\* Ok with a record carrying the given port, pid and kind; for each
\* sub-query that succeeded the record's fields hold what it returned; and
\* when the ancestor-chain query failed parent_chain is empty.
C10_AggregationSurvivesFailures ==
    dt_pc = "returned" =>
        LET ret == dt_ret[1]
            info == ret.info[1]
        IN /\ ret.ok
           /\ info.port = dt_args.port
           /\ info.pid = dt_args.pid
           /\ info.kind = dt_args.kind
           /\ QuerySucceeded("ps") =>
                 /\ IsSome(ResultOf("ps").command) =>
                       info.command = Unwrap(ResultOf("ps").command)
                 /\ \A f \in {"user_name", "uid", "uptime", "start_time",
                              "memory_rss", "memory_virtual", "cpu_usage",
                              "thread_count", "env_vars"} :
                       info[f] = ResultOf("ps")[f]
           /\ QuerySucceeded("lsof") =>
                 \A f \in {"working_dir", "file_descriptors",
                           "listen_addresses", "other_ports"} :
                       info[f] = ResultOf("lsof")[f]
           /\ QuerySucceeded("parent") =>
                 info.parent_chain = ResultOf("parent")
           /\ QuerySucceeded("children") => info.children = ResultOf("children")
           /\ QuerySucceeded("connections") =>
                 info.active_connections = ResultOf("connections")
           /\ QuerySucceeded("docker") => info.docker_info = ResultOf("docker")
           /\ AncestorQueryFailed => info.parent_chain = <<>>

\* a record returned after the ancestor-chain task panicked and the
\* connection count could not be taken, the other four sub-queries having
\* succeeded with something to report
C10_Witness ==
    /\ dt_pc = "returned"
    /\ dt_task["parent"].status = "panicked"
    /\ dt_task["connections"].status = "finished"
    /\ ~QuerySucceeded("connections")
    /\ \A t \in {"ps", "lsof", "children", "docker"} : QuerySucceeded(t)
    /\ dt_ret[1].info[1].children # <<>>
    /\ IsSome(dt_ret[1].info[1].docker_info)
    /\ dt_ret[1].info[1].listen_addresses # <<>>
    /\ dt_ret[1].info[1].env_vars # <<>>

---------------------------------------------------------------------------
AllTasksFinished ==
    /\ dt_pc # "idle"
    /\ \A t \in Tasks : dt_task[t].status \in {"finished", "panicked"}

\* C11: get_detailed_port_info has returned only when none of its six
\* tasks is running; a task leaves the running state only by finishing or
\* panicking and never changes afterwards (none is cancelled or timed
\* out); and once all six have finished the call returns.
C11_ReturnsAfterAllTasks ==
    /\ [](dt_pc = "returned" => AllTasksFinished)
    /\ [][\A t \in DOMAIN dt_task :
             /\ dt_task[t].status # "running" => dt_task'[t] = dt_task[t]
             /\ dt_task'[t].status \in {"running", "finished", "panicked"}]_vars
    /\ (AllTasksFinished ~> dt_pc = "returned")

\* the call has returned after its last task panicked while the first had
\* long finished
C11_Witness ==
    /\ dt_pc = "returned"
    /\ dt_task["ps"].status = "finished"
    /\ dt_task["docker"].status = "panicked"
    /\ AllTasksFinished

---------------------------------------------------------------------------
\* what the join of task t gives: its result, or the default of its type
\* when it panicked
DefaultOf(t) ==
    CASE t = "ps" -> CombinedPsInfoDefault
      [] t = "lsof" -> CombinedLsofInfoDefault
      [] t = "parent" -> <<>>
      [] t = "children" -> <<>>
      [] t = "connections" -> 0
      [] t = "docker" -> None

OutcomeOf(t) ==
    IF dt_task[t].status = "finished" THEN ResultOf(t) ELSE DefaultOf(t)

\* the sub-query each field of the record is fed by
PsFields ==
    {"user_name", "uid", "uptime", "start_time", "memory_rss",
     "memory_virtual", "cpu_usage", "thread_count", "env_vars"}
LsofFields ==
    {"working_dir", "file_descriptors", "listen_addresses", "other_ports"}

\* C12: the returned record is a function of the arguments and of the six
\* tasks' outcomes alone, each field taken from its own sub-query, so that
\* every schedule of the tasks that ends in the same outcomes returns the
\* same record.
C12_RecordIndependentOfSchedule ==
    dt_pc = "returned" =>
        LET info == dt_ret[1].info[1] IN
        /\ DOMAIN info = {"port", "pid", "kind", "process_name", "exec_path",
                          "command", "parent_chain", "children",
                          "active_connections", "docker_info"}
                            \cup PsFields \cup LsofFields
        /\ info.port = dt_args.port
        /\ info.pid = dt_args.pid
        /\ info.kind = dt_args.kind
        /\ info.process_name = dt_process_name
        /\ info.exec_path = dt_exec_path
        /\ info.command = IF IsSome(OutcomeOf("ps").command)
                          THEN Unwrap(OutcomeOf("ps").command) ELSE Unknown
        /\ \A f \in PsFields : info[f] = OutcomeOf("ps")[f]
        /\ \A f \in LsofFields : info[f] = OutcomeOf("lsof")[f]
        /\ info.parent_chain = OutcomeOf("parent")
        /\ info.children = OutcomeOf("children")
        /\ info.active_connections = OutcomeOf("connections")
        /\ info.docker_info = OutcomeOf("docker")

\* a record returned after all six tasks finished with something to report,
\* the two process lists differing
C12_Witness ==
    /\ dt_pc = "returned"
    /\ \A t \in Tasks : QuerySucceeded(t)
    /\ ResultOf("parent") # <<>>
    /\ ResultOf("children") # <<>>
    /\ ResultOf("parent") # ResultOf("children")
    /\ ResultOf("connections") > 0
    /\ IsSome(ResultOf("docker"))

---------------------------------------------------------------------------
\* a forced kill request has been carried out
ForcedKillDone == m_pc = "done" /\ m_cmd.name = "kill" /\ m_cmd.force

\* the pids among the entries of the requested port
PidsOnPort ==
    { Unwrap(m_entries[i].pid) :
        i \in { j \in 1..Len(m_entries) :
                  /\ m_entries[j].port = m_cmd.port
                  /\ IsSome(m_entries[j].pid) } }

\* how many times kill_pid was called for pid
SequencesFor(pid) == Cardinality({ i \in 1..Len(k_calls) : k_calls[i] = pid })

\* C13: after a forced kill request on a port, kill_pid has been called
\* exactly once for each distinct pid among the entries of that port, and
\* for no other pid, whatever the calls returned.
C13_OneSequencePerPid ==
    ForcedKillDone =>
        \A pid \in Pids \cup PidsOnPort :
            SequencesFor(pid) = IF pid \in PidsOnPort THEN 1 ELSE 0

\* a forced kill request on a port whose entries have a pid and no process
\* name has ended without a call of kill_pid
C13_Witness ==
    /\ ForcedKillDone
    /\ PidsOnPort # {}
    /\ \A i \in 1..Len(m_entries) :
          m_entries[i].port = m_cmd.port => ~IsSome(m_entries[i].process)
    /\ k_calls = <<>>

---------------------------------------------------------------------------
\* the process of the running kill_pid call exists and may be signalled
TargetAlive == k_pid \in alive /\ k_pid \in permitted

Sent(sig) == signals' = Append(signals, <<k_pid, sig>>)

\* C14: kill_pid sends SIGKILL only from the step that follows a liveness
\* check that found the process alive, which follows the grace period,
\* which follows a delivered SIGTERM; a liveness check that finds the
\* process gone ends the call with Ok and no signal; a SIGTERM that cannot
\* be delivered ends the call with Err and no signal.
C14_KillOnlyAfterTermGraceAndCheck ==
    /\ [](\A i \in 1..Len(signals) :
              signals[i][2] = "SIGKILL" =>
                  i > 1 /\ signals[i - 1] = <<signals[i][1], "SIGTERM">>)
    /\ [][/\ signals' # signals =>
                \/ k_pc = "term" /\ Sent("SIGTERM") /\ k_pc' = "sleep"
                \/ k_pc = "kill" /\ Sent("SIGKILL")
          /\ (k_pc' = "sleep" /\ k_pc # "sleep") =>
                k_pc = "term" /\ TargetAlive /\ Sent("SIGTERM")
          /\ (k_pc' = "check" /\ k_pc # "check") => k_pc = "sleep"
          /\ (k_pc' = "kill" /\ k_pc # "kill") => k_pc = "check" /\ TargetAlive
          /\ (k_pc = "check" /\ k_pc' # "check" /\ ~TargetAlive) =>
                /\ signals' = signals
                /\ k_results' = Append(k_results, <<k_pid, "Ok">>)
                /\ k_pc' = "idle"
          /\ (k_pc = "term" /\ k_pc' # "term" /\ ~TargetAlive) =>
                /\ signals' = signals
                /\ k_results' = Append(k_results, <<k_pid, "Err">>)
                /\ k_pc' = "idle"]_vars

\* a call that sent SIGTERM and then SIGKILL and reported success, after
\* an earlier call whose SIGTERM could not be delivered
C14_Witness ==
    /\ k_pc = "idle"
    /\ Len(k_results) = 2
    /\ k_results[1][2] = "Err"
    /\ k_results[2][2] = "Ok"
    /\ signals = <<<<k_pid, "SIGTERM">>, <<k_pid, "SIGKILL">>>>

---------------------------------------------------------------------------
\* the host ports a line of the six-column container listing publishes:
\* of each mapping <host-addr>:<host-port>-><container-port>/<proto> the
\* number between the last ":" before the arrow and the arrow
PublishedHostPorts(line) ==
    IF Len(splitn(6, line, "|")) < 6 THEN {}
    ELSE LET mappings == split(splitn(6, line, "|")[6], ",") IN
         { p \in DockerInfoPorts :
             \E j \in 1..Len(mappings) : mapping_host_port(mappings[j]) = Some(p) }

\* the lines of the listing that describe the returned container
LinesOf(info, lines) ==
    { k \in 1..Len(lines) :
        /\ Len(splitn(6, lines[k], "|")) = 6
        /\ splitn(6, lines[k], "|")[1] = info.container_id
        /\ splitn(6, lines[k], "|")[2] = info.container_name }

\* C15: get_docker_info returns metadata only for a process name that
\* mentions docker, and the container it returns is one that publishes the
\* inspected port as a host port; in particular it returns nothing when no
\* listed container publishes the port.
C15_OnlyPublishingContainer ==
    (di_pc = "done" /\ IsSome(di_result)) =>
        /\ MentionsDocker(Some(di_name))
        /\ \E k \in LinesOf(Unwrap(di_result), di_docker.lines) :
              di_port \in PublishedHostPorts(di_docker.lines[k])

\* port 80 was inspected, the only listed container publishes host port
\* 8080, and its metadata was returned
C15_Witness ==
    /\ di_pc = "done"
    /\ di_port = 80
    /\ di_docker.lines = <<DetailLineWeb>>
    /\ PublishedHostPorts(DetailLineWeb) = {8080}
    /\ IsSome(di_result)
    /\ Unwrap(di_result).container_name = <<"w","e","b">>

---------------------------------------------------------------------------
\* the name of an image reference: its last path segment, without the tag
\* that may follow the segment's ":"
ImageNameOf(image) ==
    LET slashes == { i \in 1..Len(image) : image[i] = "/" }
        segment == IF slashes = {} THEN image
                   ELSE SubSeq(image, MaxOf(slashes) + 1, Len(image))
        colons == { i \in 1..Len(segment) : segment[i] = ":" }
    IN IF colons = {} THEN segment
       ELSE SubSeq(segment, 1, MinOf(colons) - 1)

\* C16: the image base name get_friendly_container_name uses is the last
\* path segment of the image reference without its tag, also when the
\* registry of the reference carries a port.
C16_ImageBaseIsLastSegmentWithoutTag ==
    fr_pc = "done" =>
        /\ image_base(fr_image) = ImageNameOf(fr_image)
        /\ (LooksGenerated(fr_name) /\ ~LooksGenerated(ImageNameOf(fr_image)))
              => fr_result = ImageNameOf(fr_image) \o ContainerSuffix

\* for a generated container name and the image registry:5000/redis:latest
\* the result is "registry (container)"
C16_Witness ==
    /\ fr_pc = "done"
    /\ fr_image = <<"r","e","g","i","s","t","r","y",":","5","0","0","0","/",
                    "r","e","d","i","s",":","l","a","t","e","s","t">>
    /\ ImageNameOf(fr_image) = <<"r","e","d","i","s">>
    /\ fr_name # <<>>
    /\ LooksGenerated(fr_name)
    /\ fr_result = <<"r","e","g","i","s","t","r","y">> \o ContainerSuffix

---------------------------------------------------------------------------
\* the last parent lookup gave no parent to go on with: no answer, a root,
\* or a parent whose name libproc did not give
NoParentToFollow(answer) ==
    \/ ~IsSome(answer.parent)
    \/ Unwrap(answer.parent) \in {0, 1}
    \/ ~IsSome(answer.name)

\* C17: get_parent_chain makes at most 10 parent lookups; an iteration that
\* finds the current pid already visited ends the walk without a lookup;
\* an iteration whose lookup gives no parent, pid 0 or 1, or a parent
\* without a name ends the walk with the chain as it was; and every walk
\* ends, whatever the parent relation.
C17_WalkTerminates ==
    /\ [](ch_st.lookups <= 10)
    /\ [][ch_pc = "loop" =>
            /\ ch_st.current_pid \in ch_st.seen =>
                  /\ ch_pc' = "done"
                  /\ ch_st'.lookups = ch_st.lookups
                  /\ ch_st'.chain = ch_st.chain
            /\ ch_st'.lookups \in {ch_st.lookups, ch_st.lookups + 1}
            /\ (ch_st'.lookups > ch_st.lookups /\ NoParentToFollow(ch_answer'))
                  => ch_pc' = "done" /\ ch_st'.chain = ch_st.chain
            /\ ch_pc' = "loop" =>
                  /\ ch_st'.lookups = ch_st.lookups + 1
                  /\ ~NoParentToFollow(ch_answer')
                  /\ ch_st'.current_pid = Unwrap(ch_answer'.parent)]_vars
    /\ (ch_pc = "loop" ~> ch_pc = "done")

\* a walk that ran into a cycle back to the inspected pid and ended on
\* finding it already visited
C17_Witness ==
    /\ ch_pc = "done"
    /\ ch_st.lookups \in 2..9
    /\ ch_st.current_pid = ch_pid
    /\ ch_st.current_pid \in ch_st.seen
    /\ ch_answer.parent = Some(ch_pid)
    /\ Len(ch_st.chain) = ch_st.lookups

---------------------------------------------------------------------------
\* the process-attributes task ran to the end and each of its five
\* commands could not be started or exited non-zero
PsQueryFailed ==
    /\ dt_task["ps"].status = "finished"
    /\ \A c \in {"main", "cmd", "lstart", "threads", "eww"} :
          ~succeeded(ObservedBy("ps")[c])

PsTaskPanicked == dt_task["ps"].status = "panicked"

\* the numeric fields and the environment list hold their zero values
PsCountsAreZero(info) ==
    /\ info.uid = 0
    /\ info.memory_rss = 0
    /\ info.memory_virtual = 0
    /\ info.cpu_usage = [whole |-> 0, frac |-> <<>>]
    /\ info.thread_count = 0
    /\ info.env_vars = <<>>

\* C18 as the specification states it: when the process-attributes
\* sub-query fails or its task panics, command, user name, uptime and start
\* time of the record are empty strings, the numeric fields are zero and
\* the environment list is empty.
C18_FailureGivesZeroValues ==
    (dt_pc = "returned" /\ (PsQueryFailed \/ PsTaskPanicked)) =>
        LET info == dt_ret[1].info[1] IN
        /\ info.command = <<>>
        /\ info.user_name = <<>>
        /\ info.uptime = <<>>
        /\ info.start_time = <<>>
        /\ PsCountsAreZero(info)

\* C18 as the code has it: in both cases the numeric fields are zero, the
\* environment list is empty and command is "unknown"; user name, uptime
\* and start time are "unknown" when the commands failed and empty when
\* the task panicked.
C18_FailureGivesPlaceholders ==
    dt_pc = "returned" =>
        LET info == dt_ret[1].info[1]
            placeholder == <<"u","n","k","n","o","w","n">>
        IN /\ PsQueryFailed =>
                 /\ info.command = placeholder
                 /\ info.user_name = placeholder
                 /\ info.uptime = placeholder
                 /\ info.start_time = placeholder
                 /\ PsCountsAreZero(info)
           /\ PsTaskPanicked =>
                 /\ info.command = placeholder
                 /\ info.user_name = <<>>
                 /\ info.uptime = <<>>
                 /\ info.start_time = <<>>
                 /\ PsCountsAreZero(info)

\* a record returned after every command of the process-attributes
\* sub-query failed, with "unknown" as user name
C18_Witness ==
    /\ dt_pc = "returned"
    /\ PsQueryFailed
    /\ ObservedBy("ps").main.status = "exit_nonzero"
    /\ ObservedBy("ps").cmd.status = "spawn_error"
    /\ dt_ret[1].info[1].user_name = <<"u","n","k","n","o","w","n">>

---------------------------------------------------------------------------
\* the markers of a listing: the lines that begin with tag
MarkersBefore(lines, i, tag) ==
    { j \in 1..(i - 1) : lines[j] # <<>> /\ lines[j][1] = tag }

\* the process-id marker that governs line i: the last one before it
PidMarkerOf(lines, i) ==
    IF MarkersBefore(lines, i, "p") = {} THEN 0
    ELSE MaxOf(MarkersBefore(lines, i, "p"))

\* a text that writes a pid: digits only (the sample pids are small)
WritesPid(text) ==
    text # <<>> /\ \A k \in 1..Len(text) : text[k] \in
        {"0","1","2","3","4","5","6","7","8","9"}

\* the command label in force at line i: that of the last command-name
\* marker between the governing process-id marker and line i
LabelAt(lines, i) ==
    LET after == { j \in MarkersBefore(lines, i, "c") : j > PidMarkerOf(lines, i) }
    IN IF after = {} THEN None ELSE Some(Tail(lines[MaxOf(after)]))

\* the address markers that emit an entry: those with a port, governed by
\* a process-id marker that writes a pid
Emitting(lines) ==
    { i \in 1..Len(lines) :
        /\ lines[i] # <<>>
        /\ lines[i][1] = "n"
        /\ IsSome(extract_port(Tail(lines[i])))
        /\ PidMarkerOf(lines, i) # 0
        /\ WritesPid(Tail(lines[PidMarkerOf(lines, i)])) }

\* the k-th smallest element of a set of numbers
RECURSIVE KthOf(_, _)
KthOf(S, k) == IF k = 1 THEN MinOf(S) ELSE KthOf(S \ {MinOf(S)}, k - 1)

\* C19: the entries parsed from the listing are, in order, those of the
\* address markers governed by a valid process-id marker; each carries
\* that marker's pid, and its name is the one libproc gives for the pid or
\* else the label of a command-name marker seen after that process-id
\* marker, or none; every entry discover_ports returns has a pid.
C19_EntriesFollowPidContext ==
    Discovered =>
        LET lines == m_lsof.lines
            emitting == Emitting(lines)
        IN /\ Len(m_raw) = Cardinality(emitting)
           /\ \A k \in 1..Len(m_raw) :
                 LET i == KthOf(emitting, k)
                     pid == DecimalValue(Tail(lines[PidMarkerOf(lines, i)]))
                 IN /\ m_raw[k].pid = Some(pid)
                    /\ m_raw[k].port = Unwrap(extract_port(Tail(lines[i])))
                    /\ m_raw[k].process =
                          IF pid \in DOMAIN m_procs /\ IsSome(m_procs[pid].name)
                          THEN m_procs[pid].name
                          ELSE LabelAt(lines, i)
           /\ \A k \in 1..Len(m_result.entries) :
                 IsSome(m_result.entries[k].pid)

\* the listing p42, cnode, p43, n*:8080 with no name from libproc gave one
\* entry, of pid 43 and without a name
C19_Witness ==
    /\ Discovered
    /\ m_lsof.lines = << <<"p","4","2">>, <<"c","n","o","d","e">>,
                         <<"p","4","3">>, <<"n","*",":","8","0","8","0">> >>
    /\ m_procs = <<>>
    /\ Len(m_raw) = 1
    /\ m_raw[1].pid = Some(43)
    /\ m_raw[1].process = None

---------------------------------------------------------------------------
\* a kill request without the force flag has been dispatched
DryRunRequested == m_cmd.name = "kill" /\ ~m_cmd.force

\* C20: after a kill request without the force flag, whatever the entries
\* and the port, cmd_kill has returned, no signal has been sent to any
\* process, and kill_pid has not been called.
C20_DryRunSendsNoSignal ==
    DryRunRequested =>
        /\ m_pc = "done"
        /\ signals = <<>>
        /\ k_calls = <<>>
        /\ k_results = <<>>
        /\ k_pc = "idle"

\* a dry run whose port has two distinct killable pids: both were targets
\* to list and neither was signalled
C20_Witness ==
    /\ DryRunRequested
    /\ m_pc = "done"
    /\ Len(target_pids_of(found_on_port(m_entries, m_cmd.port))) = 2
    /\ signals = <<>>

---------------------------------------------------------------------------
\* the pids of the chain built so far, in order
ChainPidsOf(chain) == [i \in 1..Len(chain) |-> chain[i][1]]

\* C21: the list get_parent_chain builds holds no pid twice and never the
\* inspected pid, whatever the parent relation, cycles and self-parents
\* included.
C21_ChainHasNoRepeatNorSelf ==
    LET pids == ChainPidsOf(ch_st.chain) IN
    /\ \A i, j \in 1..Len(pids) : pids[i] = pids[j] => i = j
    /\ \A i \in 1..Len(pids) : pids[i] # ch_pid

\* the walk from a pid whose parent lookup answers that same pid: one
\* lookup, and the chain is the inspected pid itself
C21_Witness ==
    /\ ch_pc = "done"
    /\ ch_st.lookups = 1
    /\ ch_answer.parent = Some(ch_pid)
    /\ ChainPidsOf(ch_st.chain) = <<ch_pid>>

---------------------------------------------------------------------------
\* the running kill_pid call returns in this step
KillPidReturns == k_pc # "idle" /\ k_pc' = "idle"

\* the graceful signal of the running call has been delivered
TermDelivered == \E i \in 1..Len(signals) : signals[i] = <<k_pid, "SIGTERM">>

===========================================================================
